---- MODULE Spec2Model ----
(***************************************************************************)
(* Container orchestration of `cross` (src/docker.rs): one invocation of   *)
(* run(), which dispatches to local_run or remote_run, against a container *)
(* engine that holds one container name and two volume names.              *)
(*                                                                         *)
(* Every engine command is a blocking child process.  Its outcome is a     *)
(* Result<ExitStatus>: Ok(code) when the process ran and exited with       *)
(* `code`, Err when it could not be executed.  The engine changes its      *)
(* state only when a command exits 0, and any command that changes its     *)
(* state may also exit non-zero; queries (`volume inspect`, `ps`) answer   *)
(* truthfully.                                                             *)
(*                                                                         *)
(* The invocation runs with the current directory inside the workspace,    *)
(* no extra volumes and the copy-cache toggle off.  The commands of one    *)
(* staging call share one outcome.                                         *)
(*                                                                         *)
(* Specifications:                                                         *)
(*   Spec                one invocation of run()                           *)
(*   SpecConcurrent      remote_run next to a second remote_run for the    *)
(*                       same project, target and toolchain                *)
(*   SpecKilled          remote_run, killed once, and run again            *)
(*   SpecSymlink         the symlink script on a staged and a container    *)
(*                       tree                                              *)
(*   SpecCopy            the staging copy of a host tree                   *)
(*   SpecCachedir        is_cachedir on a CACHEDIR.TAG                     *)
(*   SpecIdentifier      remote_identifier on two projects                 *)
(*   SpecContainerState  ContainerState::new on a string                   *)
(*   SpecMountFinder     MountFinder::find_mount_path                      *)
(*   SpecMountOrder      MountFinder::new on a mount table given in two    *)
(*                       orders                                            *)
(*   SpecDirectories     Directories::create, with the mount table read    *)
(*                       off `docker inspect`                              *)
(*   SpecEngineType      get_engine_type on a help output                  *)
(*   SpecCommand         docker_command and docker_subcommand              *)
(*   SpecImage           image on a configuration and a target             *)
(*   SpecLocalRun        the command local_run builds                      *)
(*   SpecCrateVolume     create_crate_volume and remove_crate_volume       *)
(*   SpecTermination     termination_handler under interrupts              *)
(*   SpecBulkRemove      remove_volumes and remove_containers              *)
(*   SpecStaging         the staging step of remote_run, copy by copy      *)
(*   SpecEnvVars         local_run on configured environment entries       *)
(***************************************************************************)
EXTENDS Integers, Sequences, FiniteSets, TLC

VARIABLES
    world,      \* the engine: container state, its attached volume, volumes
    is_remote,  \* argument of run()
    pc,         \* position of the invocation
    dirs,       \* Directories (the fields the protocol uses)
    volume,     \* VolumeId selected by VolumeId::create
    state,      \* ContainerState observed by container_state
    guards,     \* drop guards in declaration order
    staged,     \* number of staging calls already made
    status,     \* Result of the build exec
    ret,        \* value the function body evaluated to
    result,     \* value returned to the caller of run()
    trace,      \* engine commands in the order they were invoked
    peer,       \* a second invocation of remote_run for the same project
    eval        \* one evaluation of a function: its name, argument, value

vars == <<world, is_remote, pc, dirs, volume, state, guards, staged, status,
          ret, result, trace, peer, eval>>

\* ------------------------------------------------------------------ bounds
\* exit codes of the in-container build command range over 0..MaxExit
MaxExit == 1

\* ------------------------------------------------------------ Result type
Ok(c) == [ok |-> TRUE, code |-> c, err |-> ""]
Err(e) == [ok |-> FALSE, code |-> 0, err |-> e]
Unset == Err("unset")

Success(r) == r.ok /\ r.code = 0

\* CommandExt::run_and_get_status: Ok(status) whenever the process ran,
\* whatever its exit status; Err only when it could not be executed.
run_and_get_status(codes) == {Ok(c) : c \in codes} \cup {Err("could not execute")}

\* exit codes of an engine subcommand: 0 only if the engine can do it
EngineCodes(possible) == IF possible THEN {0, 1} ELSE {1}

\* the error of a command that could not be executed names the command
CouldNotExecute(cmd, r) == IF r.ok THEN r ELSE Err(r.err \o ": " \o cmd)

\* ------------------------------------------------------- names and paths
\* Option<String>
None == <<>>
Some(x) == <<x>>
unwrap_or(opt, default) == IF opt = None THEN default ELSE opt[1]

\* the SHA-1 digest of a path's display string: 40 hex digits, written
\* here as the first five and the remaining thirty-five
Sha1Digest(path) ==
    CASE path = "/home/user/crate1/Cargo.toml"
           -> <<"bbe7e", "48a17bac2b8bcf53fb3236c3cf609a4c44d">>
      [] path = "/home/user/crate125/Cargo.toml"
           -> <<"e7859", "bfe19070cdc08ef5fbd282ac3d5ca367734">>
      [] path = "/home/user/crate497/Cargo.toml"
           -> <<"e7859", "6ed949c16b0aba6398a9aba898c13ef6efa">>
      [] path = "/home/user/.rustup/toolchains/stable-x86_64-unknown-linux-gnu"
           -> <<"ff52e", "196b0147a03df16f6878a64c80e88a0c5e7">>
      [] path = "/home/user/.rustup/toolchains/nightly-2019-12-11-x86_64-unknown-linux-gnu"
           -> <<"2f5d4", "3651526605a6da683a51ef0cf57edca5d29">>
      [] path = "/home/user/.rustup/toolchains/nightly-2021-01-24-x86_64-unknown-linux-gnu"
           -> <<"2f5d4", "23d1fc347f7a794891867d61f2beb1ad93c">>

\* slip: the whole digest is kept
path_hash_whole(path) == Sha1Digest(path)[1] \o Sha1Digest(path)[2]

\* path_hash: .digest().to_string().get(..5)
path_hash(path) == Sha1Digest(path)[1]

\* remote_identifier, given the selected package's name and manifest path,
\* the target triple, dirs.sysroot and rustc::version_meta()
remote_identifier(name, triple, manifest_path, sysroot, version_meta) ==
    LET commit_hash == unwrap_or(version_meta.commit_hash,
                                 version_meta.short_version_string)
        project_hash == path_hash(manifest_path)
        toolchain_hash == path_hash(sysroot)
    IN  "cross-" \o name \o "-" \o triple \o "-" \o project_hash
            \o "-" \o toolchain_hash \o "-" \o commit_hash

\* the project, target and toolchain of the invocation
Project == [name |-> "hello",
            triple |-> "aarch64-unknown-linux-gnu",
            manifest_path |-> "/home/user/crate1/Cargo.toml",
            sysroot |-> "/home/user/.rustup/toolchains/stable-x86_64-unknown-linux-gnu",
            version_meta |-> [commit_hash |-> Some("fe5b13d68"),
                              short_version_string |-> "rustc 1.61.0"]]

Identifier(p) ==
    remote_identifier(p.name, p.triple, p.manifest_path, p.sysroot, p.version_meta)

\* let container = remote_identifier(target, metadata, &dirs)?;
Container == Identifier(Project)

KeepId(container) == container \o "-keep"

Parent(path) == SubSeq(path, 1, Len(path) - 1)

TargetDirs == {<<"ws", "target">>, <<"out", "target">>}
HostRoot == <<"ws">>

\* --------------------------------------------------------- ContainerState
\* enum ContainerState
ContainerStates == {"Created", "Running", "Paused", "Restarting", "Dead",
                    "Exited", "DoesNotExist"}

\* what `ps -a --filter name=.. --format {{.State}}` prints, trimmed: the
\* state of the container, nothing when there is none; the engine also
\* reports states outside the enumeration
EngineStates == {"created", "running", "paused", "restarting", "dead",
                 "exited", "", "removing"}

\* slip: a string that is not known means there is no container
ContainerState_new_lenient(s) ==
    CASE s = "created" -> [ok |-> TRUE, state |-> "Created"]
      [] s = "running" -> [ok |-> TRUE, state |-> "Running"]
      [] s = "paused" -> [ok |-> TRUE, state |-> "Paused"]
      [] s = "restarting" -> [ok |-> TRUE, state |-> "Restarting"]
      [] s = "dead" -> [ok |-> TRUE, state |-> "Dead"]
      [] s = "exited" -> [ok |-> TRUE, state |-> "Exited"]
      [] OTHER -> [ok |-> TRUE, state |-> "DoesNotExist"]

\* ContainerState::new; the error is eyre::bail!("unknown container state: got {state}")
ContainerState_new(s) ==
    CASE s = "created" -> [ok |-> TRUE, state |-> "Created"]
      [] s = "running" -> [ok |-> TRUE, state |-> "Running"]
      [] s = "paused" -> [ok |-> TRUE, state |-> "Paused"]
      [] s = "restarting" -> [ok |-> TRUE, state |-> "Restarting"]
      [] s = "dead" -> [ok |-> TRUE, state |-> "Dead"]
      [] s = "exited" -> [ok |-> TRUE, state |-> "Exited"]
      [] s = "" -> [ok |-> TRUE, state |-> "DoesNotExist"]
      [] OTHER -> [ok |-> FALSE, state |-> s]

\* matches!(self, Self::Exited | Self::DoesNotExist)
is_stopped(s) == s \in {"Exited", "DoesNotExist"}

\* !matches!(self, Self::DoesNotExist)
exists(s) == s # "DoesNotExist"

\* ----------------------------------------------------------------- VolumeId
NoVolume == [kind |-> "None", id |-> ""]
Keep(id) == [kind |-> "Keep", id |-> id]
Discard(id) == [kind |-> "Discard", id |-> id]

\* slip: the keep volume is looked up but never selected
VolumeId_create_discards(container, keep_exists) == Discard(container)

\* VolumeId::create, given the answer of volume_exists for the keep id
VolumeId_create(container, keep_exists) ==
    IF keep_exists THEN Keep(KeepId(container)) ELSE Discard(container)

\* ------------------------------------------------------------- the engine
\* `stop`: an existing container ends up exited
EngineStop(w, r) ==
    IF Success(r) THEN [w EXCEPT !.cstate = "exited"] ELSE w
CanStop(w) == w.cstate # ""

\* `rm` without --force: only a container that is not running
EngineRm(w, r) ==
    IF Success(r) THEN [w EXCEPT !.cstate = "", !.cvol = ""] ELSE w
CanRm(w) == w.cstate \in {"created", "exited", "dead"}

\* `volume rm`: only a volume that exists and is not attached
EngineVolumeRm(w, v, r) ==
    IF Success(r) THEN [w EXCEPT !.vols = @ \ {v}] ELSE w
CanVolumeRm(w, v) == v \in w.vols /\ w.cvol # v

\* `volume create`
EngineVolumeCreate(w, v, r) ==
    IF Success(r) THEN [w EXCEPT !.vols = @ \cup {v}] ELSE w

\* `run -d --name c -v v:/cross`: the name must be free; a named volume
\* that does not exist is created by the engine.  A `run` that exits
\* non-zero may leave the container behind in state created.
EngineRun(w, v, r, left) ==
    IF Success(r)
    THEN [w EXCEPT !.cstate = "running", !.cvol = v, !.vols = @ \cup {v}]
    ELSE IF left
    THEN [w EXCEPT !.cstate = "created", !.cvol = v, !.vols = @ \cup {v}]
    ELSE w
CanRun(w) == w.cstate = ""
RunLeftovers(w, r) ==
    IF r.ok /\ ~Success(r) /\ CanRun(w) THEN BOOLEAN ELSE {FALSE}

\* `exec` and `cp` address a running container
CanExec(w) == w.cstate = "running"

Entry(cmd, arg, res, phase, path) ==
    [cmd |-> cmd, arg |-> arg, res |-> res, phase |-> phase, path |-> path]

\* --------------------------------------------------------------- initially
\* no second invocation is running
NoPeer == [pc |-> "absent", volume |-> NoVolume, state |-> "unset",
           guards |-> <<>>]

\* no function is being evaluated
NoCall == [fn |-> "", arg |-> <<>>, out |-> <<>>, done |-> FALSE]

WorldOK(w) ==
    /\ (w.cstate = "") = (w.cvol = "")
    /\ w.cvol # "" => w.cvol \in w.vols

Init ==
    /\ world \in {w \in [cstate : EngineStates,
                         cvol : {"", Container, KeepId(Container)},
                         vols : SUBSET {Container, KeepId(Container)}] :
                    WorldOK(w)}
    /\ is_remote \in BOOLEAN
    /\ pc = "run"
    /\ dirs \in [target : TargetDirs, host_root : {HostRoot}]
    /\ volume = NoVolume
    /\ state = "unset"
    /\ guards = <<>>
    /\ staged = 0
    /\ status = Unset
    /\ ret = Unset
    /\ result = Unset
    /\ trace = <<>>
    /\ peer = NoPeer
    /\ eval = NoCall

\* ------------------------------------------------------------------- run()
run ==
    /\ pc = "run"
    /\ pc' = IF is_remote THEN "remote_run" ELSE "local_run"
    /\ UNCHANGED <<world, is_remote, dirs, volume, state, guards, staged,
                   status, ret, result, trace>>
    /\ UNCHANGED <<peer, eval>>

\* leave the function body with value r: the guards are dropped next
Leave(r) ==
    /\ ret' = r
    /\ pc' = "drop"

\* Directories::create, Engine::new and remote_identifier may fail
remote_prepare ==
    /\ pc = "remote_run"
    /\ \E ok \in BOOLEAN :
         IF ok THEN pc' = "VolumeId_create" /\ ret' = ret
         ELSE Leave(Err("prepare"))
    /\ UNCHANGED <<world, is_remote, dirs, volume, state, guards, staged,
                   status, result, trace>>
    /\ UNCHANGED <<peer, eval>>

\* 1. let volume = VolumeId::create(&engine, &container, verbose)?;
remote_discover ==
    /\ pc = "VolumeId_create"
    /\ \E r \in run_and_get_status({IF KeepId(Container) \in world.vols THEN 0 ELSE 1}) :
         /\ trace' = Append(trace, Entry("volume inspect", KeepId(Container), r, "discover", <<>>))
         /\ IF r.ok
            THEN /\ volume' = VolumeId_create(Container, Success(r))
                 /\ pc' = "container_state"
                 /\ ret' = ret
            ELSE /\ Leave(r)
                 /\ volume' = volume
    /\ UNCHANGED <<world, is_remote, dirs, state, guards, staged, status, result>>
    /\ UNCHANGED <<peer, eval>>

\* let state = container_state(&engine, &container, verbose)?;
remote_container_state ==
    /\ pc = "container_state"
    /\ \E r \in run_and_get_status({0}) :
         /\ trace' = Append(trace, Entry("ps", Container, r, "reconcile", <<>>))
         /\ IF r.ok /\ ContainerState_new(world.cstate).ok
            THEN /\ state' = ContainerState_new(world.cstate).state
                 /\ pc' = "reconcile_stop"
                 /\ ret' = ret
            ELSE /\ Leave(IF r.ok THEN Err("unknown container state") ELSE r)
                 /\ state' = state
    /\ UNCHANGED <<world, is_remote, dirs, volume, guards, staged, status, result>>
    /\ UNCHANGED <<peer, eval>>

\* if !state.is_stopped() { container_stop(&engine, &container, verbose)?; }
remote_reconcile_stop ==
    /\ pc = "reconcile_stop"
    /\ IF ~is_stopped(state)
       THEN \E r \in run_and_get_status(EngineCodes(CanStop(world))) :
              /\ trace' = Append(trace, Entry("stop", Container, r, "reconcile", <<>>))
              /\ world' = EngineStop(world, r)
              /\ IF r.ok THEN pc' = "reconcile_rm" /\ ret' = ret ELSE Leave(r)
       ELSE /\ pc' = "reconcile_rm"
            /\ UNCHANGED <<world, trace, ret>>
    /\ UNCHANGED <<is_remote, dirs, volume, state, guards, staged, status, result>>
    /\ UNCHANGED <<peer, eval>>

\* if state.exists() { container_rm(&engine, &container, verbose)?; }
remote_reconcile_rm ==
    /\ pc = "reconcile_rm"
    /\ IF exists(state)
       THEN \E r \in run_and_get_status(EngineCodes(CanRm(world))) :
              /\ trace' = Append(trace, Entry("rm", Container, r, "reconcile", <<>>))
              /\ world' = EngineRm(world, r)
              /\ IF r.ok THEN pc' = "reconcile_volume" /\ ret' = ret ELSE Leave(r)
       ELSE /\ pc' = "reconcile_volume"
            /\ UNCHANGED <<world, trace, ret>>
    /\ UNCHANGED <<is_remote, dirs, volume, state, guards, staged, status, result>>
    /\ UNCHANGED <<peer, eval>>

\* if let VolumeId::Discard(ref id) = volume {
\*     if volume_exists(&engine, id, verbose)? { volume_rm(&engine, id, verbose)?; } }
remote_reconcile_volume ==
    /\ pc = "reconcile_volume"
    /\ IF volume.kind = "Discard"
       THEN \E q \in run_and_get_status({IF volume.id \in world.vols THEN 0 ELSE 1}) :
              LET t1 == Append(trace, Entry("volume inspect", volume.id, q, "reconcile", <<>>)) IN
              IF ~q.ok THEN /\ trace' = t1
                            /\ world' = world
                            /\ Leave(q)
              ELSE IF ~Success(q) THEN /\ trace' = t1
                                       /\ world' = world
                                       /\ pc' = "volume_create"
                                       /\ ret' = ret
              ELSE \E r \in run_and_get_status(EngineCodes(CanVolumeRm(world, volume.id))) :
                     /\ trace' = Append(t1, Entry("volume rm", volume.id, r, "reconcile", <<>>))
                     /\ world' = EngineVolumeRm(world, volume.id, r)
                     /\ IF r.ok THEN pc' = "volume_create" /\ ret' = ret ELSE Leave(r)
       ELSE /\ pc' = "volume_create"
            /\ UNCHANGED <<world, trace, ret>>
    /\ UNCHANGED <<is_remote, dirs, volume, state, guards, staged, status, result>>
    /\ UNCHANGED <<peer, eval>>

\* 2. if let VolumeId::Discard(ref id) = volume { volume_create(..)?; }
\*    let _volume_deletter = DeleteVolume(&engine, &volume, verbose);
remote_volume_create ==
    /\ pc = "volume_create"
    /\ IF volume.kind = "Discard"
       THEN \E r \in run_and_get_status(EngineCodes(TRUE)) :
              /\ trace' = Append(trace, Entry("volume create", volume.id, r, "acquire", <<>>))
              /\ world' = EngineVolumeCreate(world, volume.id, r)
              /\ IF r.ok
                 THEN /\ guards' = Append(guards, "DeleteVolume")
                      /\ pc' = "setup"
                      /\ ret' = ret
                 ELSE /\ Leave(r)
                      /\ guards' = guards
       ELSE /\ guards' = Append(guards, "DeleteVolume")
            /\ pc' = "setup"
            /\ UNCHANGED <<world, trace, ret>>
    /\ UNCHANGED <<is_remote, dirs, volume, state, staged, status, result>>
    /\ UNCHANGED <<peer, eval>>

\* slip: the data is staged before the placeholder container is started
remote_setup_then_stage ==
    /\ pc = "setup"
    /\ \E ok \in BOOLEAN :
         IF ok THEN pc' = "stage" /\ ret' = ret
         ELSE Leave(Err("setup"))
    /\ UNCHANGED <<world, is_remote, dirs, volume, state, guards, staged,
                   status, result, trace>>
    /\ UNCHANGED <<peer, eval>>

\* 3. docker_envvars(..)?, docker_mount(..)?, docker_seccomp(..)?, image(..)?
\*    build the `run` command without calling the engine; each may fail
remote_setup ==
    /\ pc = "setup"
    /\ \E ok \in BOOLEAN :
         IF ok THEN pc' = "run_d" /\ ret' = ret
         ELSE Leave(Err("setup"))
    /\ UNCHANGED <<world, is_remote, dirs, volume, state, guards, staged,
                   status, result, trace>>
    /\ UNCHANGED <<peer, eval>>

\*    docker.arg(image).args(["sh", "-c", "sleep infinity"]).run_and_get_status(verbose)?;
\*    let _container_deletter = DeleteContainer(&engine, &container, verbose);
remote_run_d ==
    /\ pc = "run_d"
    /\ \E r \in run_and_get_status(EngineCodes(CanRun(world))) :
         /\ trace' = Append(trace, Entry("run", Container, r, "start", <<>>))
         /\ \E left \in RunLeftovers(world, r) :
                world' = EngineRun(world, volume.id, r, left)
         /\ IF r.ok
            THEN /\ guards' = Append(guards, "DeleteContainer")
                 /\ pc' = "stage"
                 /\ ret' = ret
            ELSE /\ Leave(r)
                 /\ guards' = guards
    /\ UNCHANGED <<is_remote, dirs, volume, state, staged, status, result>>
    /\ UNCHANGED <<peer, eval>>

\* 4. the staging calls of remote_run, in order, and the engine commands
\*    each of them issues
IsInside(path, root) ==
    Len(path) >= Len(root) /\ SubSeq(path, 1, Len(root)) = root

\* if let VolumeId::Discard(_) = volume { copy_volume_xargo(..)?;
\*     copy_volume_cargo(..)?; copy_volume_rust(..)?; }
\* copy(&dirs.host_root, &mount_root)?;
\* target dir outside the project: copy or create it under the prefix
StagingCalls(v, d) ==
    (IF v.kind = "Discard" THEN <<"copy toolchain">> ELSE <<>>)
    \o <<"copy host_root">>
    \o (IF IsInside(d.target, d.host_root) THEN <<>> ELSE <<"copy target">>)

StagingCommands(call) ==
    CASE call = "copy toolchain" ->
             <<"exec mkdir", "cp">>                           \* copy_volume_xargo
             \o <<"exec mkdir", "cp">>                        \* copy_volume_cargo
             \o <<"exec mkdir", "cp", "exec mkdir", "cp">>    \* copy_volume_rust
      [] call = "copy host_root" -> <<"cp">>
      [] call = "copy target" -> <<"exec mkdir">>

\* the commands of one staging call: all run with exit status r.code, or
\* the first of them could not be executed
StagingEntries(call, r) ==
    LET cmds == StagingCommands(call) IN
    IF r.ok
    THEN [i \in 1..Len(cmds) |-> Entry(cmds[i], Container, r, "stage", <<>>)]
    ELSE <<Entry(cmds[1], Container, r, "stage", <<>>)>>

remote_stage ==
    /\ pc = "stage"
    /\ LET calls == StagingCalls(volume, dirs) IN
       IF staged < Len(calls)
       THEN \E r \in run_and_get_status(EngineCodes(CanExec(world))) :
              /\ trace' = trace \o StagingEntries(calls[staged + 1], r)
              /\ staged' = staged + 1
              /\ IF r.ok THEN pc' = "stage" /\ ret' = ret ELSE Leave(r)
       ELSE /\ pc' = "symlink"
            /\ UNCHANGED <<trace, staged, ret>>
    /\ UNCHANGED <<world, is_remote, dirs, volume, state, guards, status, result>>
    /\ UNCHANGED <<peer, eval>>

\* 5. docker exec <container> sh -c <symlink script>  .run_and_get_status(verbose)?;
remote_symlink ==
    /\ pc = "symlink"
    /\ \E r \in run_and_get_status(EngineCodes(CanExec(world))) :
         /\ trace' = Append(trace, Entry("exec symlink", Container, r, "symlink", <<>>))
         /\ IF r.ok THEN pc' = "build" /\ ret' = ret ELSE Leave(r)
    /\ UNCHANGED <<world, is_remote, dirs, volume, state, guards, staged,
                   status, result>>
    /\ UNCHANGED <<peer, eval>>

\* exit codes of the in-container build command
BuildCodes(w) == IF CanExec(w) THEN 0..MaxExit ELSE 1..MaxExit

\* slip: `let status = docker.run_and_get_status(verbose)?;`
remote_build_try ==
    /\ pc = "build"
    /\ \E r \in {CouldNotExecute("exec", x) : x \in run_and_get_status(BuildCodes(world))} :
         /\ trace' = Append(trace, Entry("exec build", Container, r, "build", <<>>))
         /\ status' = r
         /\ IF r.ok THEN pc' = "copy_back" /\ ret' = ret ELSE Leave(r)
    /\ UNCHANGED <<world, is_remote, dirs, volume, state, guards, staged, result>>
    /\ UNCHANGED <<peer, eval>>

\* 6. let status = docker.run_and_get_status(verbose);
remote_build ==
    /\ pc = "build"
    /\ \E r \in {CouldNotExecute("exec", x) : x \in run_and_get_status(BuildCodes(world))} :
         /\ trace' = Append(trace, Entry("exec build", Container, r, "build", <<>>))
         /\ status' = r
         /\ pc' = "copy_back"
    /\ UNCHANGED <<world, is_remote, dirs, volume, state, guards, staged,
                   ret, result>>
    /\ UNCHANGED <<peer, eval>>

\* slip: the build status is checked and a non-zero status becomes an error
remote_copy_back_checked ==
    /\ pc = "copy_back"
    /\ \E r \in {CouldNotExecute("cp", x) : x \in run_and_get_status(EngineCodes(CanExec(world)))} :
         /\ trace' = Append(trace, Entry("cp", Container, r, "copy_back", Parent(dirs.target)))
         /\ Leave(IF ~r.ok THEN r
                  ELSE IF Success(status) THEN status
                  ELSE Err("exited non-zero"))
    /\ UNCHANGED <<world, is_remote, dirs, volume, state, guards, staged,
                   status, result>>
    /\ UNCHANGED <<peer, eval>>

\* slip: the result of the copy-back is dropped with .ok()
remote_copy_back_ignored ==
    /\ pc = "copy_back"
    /\ \E r \in {CouldNotExecute("cp", x) : x \in run_and_get_status(EngineCodes(CanExec(world)))} :
         /\ trace' = Append(trace, Entry("cp", Container, r, "copy_back", Parent(dirs.target)))
         /\ Leave(status)
    /\ UNCHANGED <<world, is_remote, dirs, volume, state, guards, staged,
                   status, result>>
    /\ UNCHANGED <<peer, eval>>

\* 7. docker cp -a <container>:<target_dir> <dirs.target.parent()>
\*        .run_and_get_status(verbose)?;
\*    status
remote_copy_back ==
    /\ pc = "copy_back"
    /\ \E r \in {CouldNotExecute("cp", x) : x \in run_and_get_status(EngineCodes(CanExec(world)))} :
         /\ trace' = Append(trace, Entry("cp", Container, r, "copy_back", Parent(dirs.target)))
         /\ Leave(IF r.ok THEN status ELSE r)
    /\ UNCHANGED <<world, is_remote, dirs, volume, state, guards, staged,
                   status, result>>
    /\ UNCHANGED <<peer, eval>>

\* ------------------------------------------------------------ scope exit
\* slip: guards dropped in declaration order
NextGuard_declared(g) == 1

\* locals are dropped in reverse order of declaration
NextGuard(g) == Len(g)

Without(g, i) == SubSeq(g, 1, i - 1) \o SubSeq(g, i + 1, Len(g))

\* slip: the container is stopped but never removed
DeleteContainer_drop_stop_only ==
    /\ pc = "drop"
    /\ guards # <<>>
    /\ guards[NextGuard(guards)] = "DeleteContainer"
    /\ \E r1 \in run_and_get_status(EngineCodes(CanStop(world))) :
         /\ world' = EngineStop(world, r1)
         /\ trace' = Append(trace, Entry("stop", Container, r1, "release", <<>>))
    /\ guards' = Without(guards, NextGuard(guards))
    /\ UNCHANGED <<is_remote, pc, dirs, volume, state, staged, status, ret, result>>
    /\ UNCHANGED <<peer, eval>>

\* slip: a failing `stop` or `rm` of the guard replaces the value of the body
DeleteContainer_drop_propagates ==
    /\ pc = "drop"
    /\ guards # <<>>
    /\ guards[NextGuard(guards)] = "DeleteContainer"
    /\ \E r1 \in run_and_get_status(EngineCodes(CanStop(world))) :
         LET w1 == EngineStop(world, r1) IN
         \E r2 \in run_and_get_status(EngineCodes(CanRm(w1))) :
           /\ world' = EngineRm(w1, r2)
           /\ trace' = trace \o <<Entry("stop", Container, r1, "release", <<>>),
                                  Entry("rm", Container, r2, "release", <<>>)>>
           /\ ret' = IF Success(r1) /\ Success(r2) THEN ret ELSE Err("release")
    /\ guards' = Without(guards, NextGuard(guards))
    /\ UNCHANGED <<is_remote, pc, dirs, volume, state, staged, status, result>>
    /\ UNCHANGED <<peer, eval>>

\* impl Drop for DeleteContainer:
\*     container_stop(..).ok(); container_rm(..).ok();
DeleteContainer_drop ==
    /\ pc = "drop"
    /\ guards # <<>>
    /\ guards[NextGuard(guards)] = "DeleteContainer"
    /\ \E r1 \in run_and_get_status(EngineCodes(CanStop(world))) :
         LET w1 == EngineStop(world, r1) IN
         \E r2 \in run_and_get_status(EngineCodes(CanRm(w1))) :
           /\ world' = EngineRm(w1, r2)
           /\ trace' = trace \o <<Entry("stop", Container, r1, "release", <<>>),
                                  Entry("rm", Container, r2, "release", <<>>)>>
    /\ guards' = Without(guards, NextGuard(guards))
    /\ UNCHANGED <<is_remote, pc, dirs, volume, state, staged, status, ret, result>>
    /\ UNCHANGED <<peer, eval>>

\* slip: the guard forgets the volume
DeleteVolume_drop_forgets ==
    /\ pc = "drop"
    /\ guards # <<>>
    /\ guards[NextGuard(guards)] = "DeleteVolume"
    /\ guards' = Without(guards, NextGuard(guards))
    /\ UNCHANGED <<world, trace, is_remote, pc, dirs, volume, state, staged,
                   status, ret, result>>
    /\ UNCHANGED <<peer, eval>>

\* impl Drop for DeleteVolume:
\*     if let VolumeId::Discard(id) = self.1 { volume_rm(self.0, id, self.2).ok(); }
DeleteVolume_drop ==
    /\ pc = "drop"
    /\ guards # <<>>
    /\ guards[NextGuard(guards)] = "DeleteVolume"
    /\ IF volume.kind = "Discard"
       THEN \E r \in run_and_get_status(EngineCodes(CanVolumeRm(world, volume.id))) :
              /\ world' = EngineVolumeRm(world, volume.id, r)
              /\ trace' = Append(trace, Entry("volume rm", volume.id, r, "release", <<>>))
       ELSE UNCHANGED <<world, trace>>
    /\ guards' = Without(guards, NextGuard(guards))
    /\ UNCHANGED <<is_remote, pc, dirs, volume, state, staged, status, ret, result>>
    /\ UNCHANGED <<peer, eval>>

\* the value of the body is handed to the caller once every guard is gone
remote_return ==
    /\ pc = "drop"
    /\ guards = <<>>
    /\ result' = ret
    /\ pc' = "done"
    /\ UNCHANGED <<world, is_remote, dirs, volume, state, guards, staged,
                   status, ret, trace>>
    /\ UNCHANGED <<peer, eval>>

\* -------------------------------------------------------------- local_run
\* Directories::create, Engine::new, docker_envvars, docker_mount,
\* docker_seccomp, docker_cwd and image may fail before the engine is called
local_prepare ==
    /\ pc = "local_run"
    /\ \E ok \in BOOLEAN :
         IF ok THEN pc' = "local_docker_run" /\ result' = result
         ELSE pc' = "done" /\ result' = Err("setup")
    /\ UNCHANGED <<world, is_remote, dirs, volume, state, guards, staged,
                   status, ret, trace>>
    /\ UNCHANGED <<peer, eval>>

\* docker run --rm .. <image> sh -c "PATH=$PATH:/rust/bin <cmd>"
\*     .run_and_get_status(verbose)
local_docker_run ==
    /\ pc = "local_docker_run"
    /\ \E r \in run_and_get_status(0..MaxExit) :
         /\ trace' = Append(trace, Entry("run --rm", "", r, "build", <<>>))
         /\ status' = r
         /\ result' = r
         /\ pc' = "done"
    /\ UNCHANGED <<world, is_remote, dirs, volume, state, guards, staged, ret>>
    /\ UNCHANGED <<peer, eval>>

Next ==
    \/ run
    \/ remote_prepare
    \/ remote_discover
    \/ remote_container_state
    \/ remote_reconcile_stop
    \/ remote_reconcile_rm
    \/ remote_reconcile_volume
    \/ remote_volume_create
    \/ remote_setup
    \/ remote_run_d
    \/ remote_stage
    \/ remote_symlink
    \/ remote_build
    \/ remote_copy_back
    \/ DeleteContainer_drop
    \/ DeleteVolume_drop
    \/ remote_return
    \/ local_prepare
    \/ local_docker_run

Spec == Init /\ [][Next]_vars

TypeOK ==
    /\ pc \in {"run", "remote_run", "VolumeId_create", "container_state",
               "reconcile_stop", "reconcile_rm", "reconcile_volume",
               "volume_create", "setup", "run_d", "stage", "symlink", "build",
               "copy_back", "drop", "done", "local_run", "local_docker_run",
               "killed"}
    /\ WorldOK(world)

\* ------------------------------------------------- reading the trace
Issued(i, cmd, phase) ==
    i \in 1..Len(trace) /\ trace[i].cmd = cmd /\ trace[i].phase = phase

\* the process of entry i ran (it exited with some status)
Ran(i) == trace[i].res.ok

Returned == pc = "done" /\ is_remote

\* Acquire was reached: `volume create` ran for the Discard volume
Acquired ==
    \E i \in 1..Len(trace) : Issued(i, "volume create", "acquire") /\ Ran(i)

\* the placeholder container's `run -d` ran
Started == \E i \in 1..Len(trace) : Issued(i, "run", "start") /\ Ran(i)

ReleaseFailed ==
    \E i \in 1..Len(trace) : trace[i].phase = "release" /\ ~Success(trace[i].res)

\* C1 as stated: after a run that selected Discard and reached Acquire, the
\* volume named after the container is absent when remote_run returns.
C1_VolumeAbsentOnReturn ==
    (Returned /\ volume.kind = "Discard" /\ Acquired)
        => volume.id \notin world.vols

\* C1 amended: after a run that selected Discard and reached Acquire, the
\* last engine command before remote_run returns is the release-time
\* `volume rm` of the volume named after the container, whatever value is
\* returned; the volume is absent whenever that command exits 0.
C1_VolumeRmOnReturn ==
    (Returned /\ volume.kind = "Discard" /\ Acquired)
        => /\ volume.id = Container
           /\ Issued(Len(trace), "volume rm", "release")
           /\ trace[Len(trace)].arg = Container
           /\ Success(trace[Len(trace)].res) => Container \notin world.vols

\* an error raised after Acquire, and the volume is gone on return
C1_Witness ==
    /\ Returned /\ volume.kind = "Discard" /\ Acquired
    /\ ~result.ok
    /\ Started
    /\ Container \notin world.vols

\* C2 as stated: once `run -d` has run, every return path issues `stop` and
\* then `rm`, and no container with the invocation's name exists on return.
C2_ContainerAbsentOnReturn ==
    (Returned /\ Started)
        => /\ \E i \in 1..Len(trace) :
                Issued(i, "stop", "release") /\ Issued(i + 1, "rm", "release")
           /\ world.cstate = ""

\* C2 amended: once `run -d` has run, every return path issues `stop` and
\* then `rm` for the container after all other commands that address it; no
\* container with the invocation's name exists on return whenever that `rm`
\* exits 0.
C2_StopRmOnReturn ==
    (Returned /\ Started)
        => \E i \in 1..Len(trace) :
             /\ Issued(i, "stop", "release") /\ trace[i].arg = Container
             /\ Issued(i + 1, "rm", "release") /\ trace[i + 1].arg = Container
             /\ \A j \in 1..(i - 1) : trace[j].phase # "release"
             /\ \A j \in (i + 2)..Len(trace) : trace[j].cmd = "volume rm"
             /\ Success(trace[i + 1].res) => world.cstate = ""

\* the build could not be run, and the container is gone on return
C2_Witness ==
    /\ Returned /\ Started
    /\ ~result.ok
    /\ \E i \in 1..Len(trace) : Issued(i, "exec build", "build")
    /\ world.cstate = ""

VolumeCommands == {"volume create", "volume rm"}

\* C3: a keep volume that exists at Discover is selected as Keep under
\* exactly that name, no `volume create` or `volume rm` is issued from then
\* on and the keep volume still exists whenever the run ends; without a keep
\* volume, Discard named exactly after the container is selected.
C3_KeepVolumeFrame ==
    /\ [][(pc = "VolumeId_create" /\ pc' = "container_state")
             => volume' = IF KeepId(Container) \in world.vols
                          THEN Keep(Container \o "-keep")
                          ELSE Discard(Container)]_vars
    /\ [](volume.kind = "Keep"
             => /\ \A i \in 1..Len(trace) : trace[i].cmd \notin VolumeCommands
                /\ volume.id \in world.vols)

\* a run on a keep volume that failed after the container was started
C3_Witness ==
    /\ Returned /\ volume.kind = "Keep" /\ Started
    /\ ~result.ok
    /\ Container \o "-keep" \in world.vols

\* C4: on release the commands are issued in the order stop, rm, then (for
\* Discard) volume rm: a release-time `volume rm` is the last command and,
\* when the container was started, directly follows the release-time `stop`
\* and `rm` of the container.
C4_ReleaseOrder ==
    \A i \in 1..Len(trace) :
        trace[i].phase = "release"
            => /\ trace[i].cmd = "volume rm"
                    => /\ i = Len(trace)
                       /\ Started => Issued(i - 2, "stop", "release")
                                     /\ Issued(i - 1, "rm", "release")
               /\ trace[i].cmd = "rm" => Issued(i - 1, "stop", "release")
               /\ trace[i].cmd = "stop"
                    => /\ i > 1
                       /\ trace[i - 1].phase # "release"
                       /\ i < Len(trace) => Issued(i + 1, "rm", "release")

\* a run that failed after the container was started and released both
C4_Witness ==
    /\ Returned /\ Started /\ volume.kind = "Discard"
    /\ ~result.ok
    /\ Issued(Len(trace), "volume rm", "release")

\* C5: the value remote_run returns is the value its body evaluated to: no
\* outcome of the release commands changes it, turns it into an error or
\* keeps remote_run from returning.
C5_ReleaseKeepsResult ==
    /\ [](Returned => result = ret)
    /\ [][(pc = "drop" /\ is_remote)
             => /\ ret' = ret
                /\ pc' \in {"drop", "done"}]_vars

\* a successful build is returned although a release command failed
C5_Witness ==
    /\ Returned /\ ReleaseFailed
    /\ result = Ok(0)
    /\ Cardinality({i \in 1..Len(trace) : trace[i].phase = "release"}) = 3

ReconcileRemovals == {"stop", "rm", "volume rm"}

\* C6: if a stop or removal of the reconciliation fails, remote_run aborts
\* with an error before any volume is created or any container is started.
C6_ReconcileFailureAborts ==
    \A i \in 1..Len(trace) :
        (/\ trace[i].phase = "reconcile"
         /\ trace[i].cmd \in ReconcileRemovals
         /\ ~Success(trace[i].res))
            => /\ \A j \in 1..Len(trace) : trace[j].cmd \notin {"volume create", "run"}
               /\ pc = "done" => ~result.ok

\* C7: at the start of Acquire, `stop` was issued iff the observed state is
\* neither Exited nor DoesNotExist, `rm` iff it is not DoesNotExist, and no
\* container and (Discard) no volume with the container's name exists.
C7_ReconciledAtAcquire ==
    pc = "volume_create"
        => /\ (\E i \in 1..Len(trace) : Issued(i, "stop", "reconcile"))
                  <=> state \notin {"Exited", "DoesNotExist"}
           /\ (\E i \in 1..Len(trace) : Issued(i, "rm", "reconcile"))
                  <=> state # "DoesNotExist"
           /\ world.cstate = ""
           /\ volume.kind = "Discard" => Container \notin world.vols

PhaseRank(phase) ==
    CASE phase = "discover" -> 1
      [] phase = "reconcile" -> 2
      [] phase = "acquire" -> 3
      [] phase = "start" -> 4
      [] phase = "stage" -> 5
      [] phase = "symlink" -> 6
      [] phase = "build" -> 7
      [] phase = "copy_back" -> 8
      [] phase = "release" -> 9

PhaseCommands(phase) ==
    CASE phase = "discover" -> {"volume inspect"}
      [] phase = "reconcile" -> {"ps", "stop", "rm", "volume inspect", "volume rm"}
      [] phase = "acquire" -> {"volume create"}
      [] phase = "start" -> {"run"}
      [] phase = "stage" -> {"exec mkdir", "cp"}
      [] phase = "symlink" -> {"exec symlink"}
      [] phase = "build" -> {"exec build"}
      [] phase = "copy_back" -> {"cp"}
      [] phase = "release" -> {"stop", "rm", "volume rm"}

OncePhases == {"discover", "acquire", "start", "symlink", "build", "copy_back"}

ContainerCommands == {"exec mkdir", "cp", "exec symlink", "exec build"}

HasPhase(phase) == \E i \in 1..Len(trace) : trace[i].phase = phase

\* C8: the engine commands of a remote run occur in the order discover and
\* reconcile, volume create (Discard only), `run -d`, staging copies,
\* symlink exec, build exec, copy-back, release; a run that returns a build
\* status went through all of them; the volume create precedes the `run`
\* and no `cp` or `exec` precedes it.
C8_ProtocolOrder ==
    is_remote =>
        /\ \A i \in 1..Len(trace) :
              /\ trace[i].cmd \in PhaseCommands(trace[i].phase)
              /\ i > 1 => PhaseRank(trace[i - 1].phase) <= PhaseRank(trace[i].phase)
              /\ (i > 1 /\ trace[i].phase \in OncePhases)
                    => trace[i - 1].phase # trace[i].phase
              /\ trace[i].cmd \in ContainerCommands
                    => \E j \in 1..(i - 1) : trace[j].cmd = "run"
              /\ trace[i].cmd = "volume create" => volume.kind = "Discard"
              /\ (trace[i].cmd = "run" /\ volume.kind = "Discard")
                    => \E j \in 1..(i - 1) : trace[j].cmd = "volume create"
        /\ (pc = "done" /\ result.ok)
              => \A phase \in {"discover", "reconcile", "start", "stage", "symlink",
                               "build", "copy_back", "release"} : HasPhase(phase)

\* a Discard run that returned a build status
C8_Witness ==
    /\ Returned /\ result.ok /\ volume.kind = "Discard"
    /\ HasPhase("acquire")
    /\ Issued(Len(trace), "volume rm", "release")

IsBuild(i) == trace[i].cmd \in {"exec build", "run --rm"}

Queries == {"volume inspect", "ps"}

\* every engine command other than the build and the release exited 0
\* (a `volume inspect` answers with its exit status)
OrchestrationSucceeded ==
    \A i \in 1..Len(trace) :
        \/ IsBuild(i)
        \/ trace[i].phase = "release"
        \/ Success(trace[i].res)
        \/ trace[i].cmd = "volume inspect" /\ Ran(i)

\* C9: when every orchestration step succeeds, run() returns Ok with
\* exactly the exit status of the in-container build command, zero or not,
\* in local and in remote mode.
C9_BuildStatusReturned ==
    \A i \in 1..Len(trace) :
        (pc = "done" /\ IsBuild(i) /\ Ran(i) /\ OrchestrationSucceeded)
            => /\ result.ok
               /\ result.code = trace[i].res.code

\* a remote run whose steps all succeeded returns the non-zero build status
C9_Witness ==
    /\ Returned /\ OrchestrationSucceeded
    /\ \E i \in 1..Len(trace) : IsBuild(i) /\ Ran(i) /\ trace[i].res.code # 0
    /\ result.ok /\ result.code # 0

\* C10: the command issued right after the build exec, whatever the result
\* of the build exec, is the copy of the container's target directory to
\* the parent of the host target directory, and it precedes the release.
C10_CopyBackAfterBuild ==
    \A i \in 1..Len(trace) :
        trace[i].cmd = "exec build"
            => /\ \A j \in 1..i : trace[j].phase # "release"
               /\ \/ i = Len(trace) /\ pc = "copy_back"
                  \/ /\ Issued(i + 1, "cp", "copy_back")
                     /\ trace[i + 1].arg = Container
                     /\ Len(dirs.target) = Len(trace[i + 1].path) + 1
                     /\ \A k \in 1..Len(trace[i + 1].path) :
                            trace[i + 1].path[k] = dirs.target[k]

\* the build could not be run and the target directory was copied back
C10_Witness ==
    /\ Returned
    /\ \E i \in 1..Len(trace) :
         /\ trace[i].cmd = "exec build" /\ ~Ran(i)
         /\ Issued(i + 1, "cp", "copy_back") /\ Success(trace[i + 1].res)
         /\ Issued(i + 2, "stop", "release")

\* ============================================ two concurrent invocations
\* A second process runs remote_run for the same project, target and
\* toolchain against the same engine.  Its steps are those of remote_run
\* that address the engine; staging, symlinks, build and copy-back are one
\* step, since they leave the set of containers and volumes alone.

\* slip: the name carries something private to the process
PeerContainer_unique == Identifier(Project) \o "-2"

\* let container = remote_identifier(target, metadata, &dirs)?;
PeerContainer == Identifier(Project)

\* the engine looks a container or volume up by name
Named(n) == n = Container

\* the second process leaves the function body: its guards are dropped
\* next (the value it returns is not kept)
PeerLeave(r) == [peer EXCEPT !.pc = "drop"]

\* let volume = VolumeId::create(&engine, &container, verbose)?;
peer_discover ==
    /\ peer.pc = "VolumeId_create"
    /\ \E r \in run_and_get_status({IF KeepId(PeerContainer) \in world.vols THEN 0 ELSE 1}) :
         peer' = IF r.ok
                 THEN [peer EXCEPT !.pc = "container_state",
                                   !.volume = VolumeId_create(PeerContainer, Success(r))]
                 ELSE PeerLeave(r)
    /\ UNCHANGED <<world, is_remote, pc, dirs, volume, state, guards, staged,
                   status, ret, result, trace, eval>>

\* let state = container_state(&engine, &container, verbose)?;
peer_container_state ==
    /\ peer.pc = "container_state"
    /\ \E r \in run_and_get_status({0}) :
         LET seen == ContainerState_new(IF Named(PeerContainer) THEN world.cstate ELSE "") IN
         peer' = IF r.ok /\ seen.ok
                 THEN [peer EXCEPT !.pc = "reconcile_stop", !.state = seen.state]
                 ELSE PeerLeave(IF r.ok THEN Err("unknown container state") ELSE r)
    /\ UNCHANGED <<world, is_remote, pc, dirs, volume, state, guards, staged,
                   status, ret, result, trace, eval>>

\* if !state.is_stopped() { container_stop(&engine, &container, verbose)?; }
peer_reconcile_stop ==
    /\ peer.pc = "reconcile_stop"
    /\ IF ~is_stopped(peer.state)
       THEN \E r \in run_and_get_status(
                       EngineCodes(Named(PeerContainer) /\ CanStop(world))) :
              /\ world' = EngineStop(world, r)
              /\ peer' = IF r.ok THEN [peer EXCEPT !.pc = "reconcile_rm"]
                         ELSE PeerLeave(r)
       ELSE /\ peer' = [peer EXCEPT !.pc = "reconcile_rm"]
            /\ world' = world
    /\ UNCHANGED <<is_remote, pc, dirs, volume, state, guards, staged,
                   status, ret, result, trace, eval>>

\* if state.exists() { container_rm(&engine, &container, verbose)?; }
peer_reconcile_rm ==
    /\ peer.pc = "reconcile_rm"
    /\ IF exists(peer.state)
       THEN \E r \in run_and_get_status(
                       EngineCodes(Named(PeerContainer) /\ CanRm(world))) :
              /\ world' = EngineRm(world, r)
              /\ peer' = IF r.ok THEN [peer EXCEPT !.pc = "reconcile_volume"]
                         ELSE PeerLeave(r)
       ELSE /\ peer' = [peer EXCEPT !.pc = "reconcile_volume"]
            /\ world' = world
    /\ UNCHANGED <<is_remote, pc, dirs, volume, state, guards, staged,
                   status, ret, result, trace, eval>>

\* if let VolumeId::Discard(ref id) = volume {
\*     if volume_exists(&engine, id, verbose)? { volume_rm(&engine, id, verbose)?; } }
peer_reconcile_volume ==
    /\ peer.pc = "reconcile_volume"
    /\ IF peer.volume.kind = "Discard"
       THEN \E q \in run_and_get_status({IF peer.volume.id \in world.vols THEN 0 ELSE 1}) :
              IF ~q.ok THEN peer' = PeerLeave(q) /\ world' = world
              ELSE IF ~Success(q)
              THEN peer' = [peer EXCEPT !.pc = "volume_create"] /\ world' = world
              ELSE \E r \in run_and_get_status(
                              EngineCodes(CanVolumeRm(world, peer.volume.id))) :
                     /\ world' = EngineVolumeRm(world, peer.volume.id, r)
                     /\ peer' = IF r.ok THEN [peer EXCEPT !.pc = "volume_create"]
                                ELSE PeerLeave(r)
       ELSE /\ peer' = [peer EXCEPT !.pc = "volume_create"]
            /\ world' = world
    /\ UNCHANGED <<is_remote, pc, dirs, volume, state, guards, staged,
                   status, ret, result, trace, eval>>

\* if let VolumeId::Discard(ref id) = volume { volume_create(..)?; }
\* let _volume_deletter = DeleteVolume(&engine, &volume, verbose);
peer_volume_create ==
    /\ peer.pc = "volume_create"
    /\ IF peer.volume.kind = "Discard"
       THEN \E r \in run_and_get_status(EngineCodes(TRUE)) :
              /\ world' = EngineVolumeCreate(world, peer.volume.id, r)
              /\ peer' = IF r.ok
                         THEN [peer EXCEPT !.pc = "run_d",
                                           !.guards = Append(@, "DeleteVolume")]
                         ELSE PeerLeave(r)
       ELSE /\ peer' = [peer EXCEPT !.pc = "run_d",
                                    !.guards = Append(@, "DeleteVolume")]
            /\ world' = world
    /\ UNCHANGED <<is_remote, pc, dirs, volume, state, guards, staged,
                   status, ret, result, trace, eval>>

\* docker.arg(image).args(["sh", "-c", "sleep infinity"]).run_and_get_status(verbose)?;
\* let _container_deletter = DeleteContainer(&engine, &container, verbose);
peer_run_d ==
    /\ peer.pc = "run_d"
    /\ \E r \in run_and_get_status(EngineCodes(Named(PeerContainer) /\ CanRun(world))) :
         /\ \E left \in RunLeftovers(world, r) :
                world' = EngineRun(world, peer.volume.id, r, left)
         /\ peer' = IF r.ok
                    THEN [peer EXCEPT !.pc = "using",
                                      !.guards = Append(@, "DeleteContainer")]
                    ELSE PeerLeave(r)
    /\ UNCHANGED <<is_remote, pc, dirs, volume, state, guards, staged,
                   status, ret, result, trace, eval>>

\* staging, symlink exec, build exec and copy-back of the second process
peer_use ==
    /\ peer.pc = "using"
    /\ peer' = PeerLeave(Unset)
    /\ UNCHANGED <<world, is_remote, pc, dirs, volume, state, guards, staged,
                   status, ret, result, trace, eval>>

\* impl Drop for DeleteContainer, in the second process
peer_DeleteContainer_drop ==
    /\ peer.pc = "drop"
    /\ peer.guards # <<>>
    /\ peer.guards[NextGuard(peer.guards)] = "DeleteContainer"
    /\ \E r1 \in run_and_get_status(EngineCodes(Named(PeerContainer) /\ CanStop(world))) :
         LET w1 == EngineStop(world, r1) IN
         \E r2 \in run_and_get_status(EngineCodes(Named(PeerContainer) /\ CanRm(w1))) :
           world' = EngineRm(w1, r2)
    /\ peer' = [peer EXCEPT !.guards = Without(@, NextGuard(@))]
    /\ UNCHANGED <<is_remote, pc, dirs, volume, state, guards, staged,
                   status, ret, result, trace, eval>>

\* impl Drop for DeleteVolume, in the second process
peer_DeleteVolume_drop ==
    /\ peer.pc = "drop"
    /\ peer.guards # <<>>
    /\ peer.guards[NextGuard(peer.guards)] = "DeleteVolume"
    /\ IF peer.volume.kind = "Discard"
       THEN \E r \in run_and_get_status(EngineCodes(CanVolumeRm(world, peer.volume.id))) :
              world' = EngineVolumeRm(world, peer.volume.id, r)
       ELSE world' = world
    /\ peer' = [peer EXCEPT !.guards = Without(@, NextGuard(@))]
    /\ UNCHANGED <<is_remote, pc, dirs, volume, state, guards, staged,
                   status, ret, result, trace, eval>>

peer_return ==
    /\ peer.pc = "drop"
    /\ peer.guards = <<>>
    /\ peer' = [peer EXCEPT !.pc = "done"]
    /\ UNCHANGED <<world, is_remote, pc, dirs, volume, state, guards, staged,
                   status, ret, result, trace, eval>>

\* both processes are started on an engine without leftovers
InitConcurrent ==
    /\ world = [cstate |-> "", cvol |-> "", vols |-> {}]
    /\ is_remote = TRUE
    /\ pc = "run"
    /\ dirs = [target |-> <<"ws", "target">>, host_root |-> HostRoot]
    /\ volume = NoVolume
    /\ state = "unset"
    /\ guards = <<>>
    /\ staged = 0
    /\ status = Unset
    /\ ret = Unset
    /\ result = Unset
    /\ trace = <<>>
    /\ peer = [NoPeer EXCEPT !.pc = "VolumeId_create"]
    /\ eval = NoCall

NextConcurrent ==
    \/ run
    \/ remote_prepare
    \/ remote_discover
    \/ remote_container_state
    \/ remote_reconcile_stop
    \/ remote_reconcile_rm
    \/ remote_reconcile_volume
    \/ remote_volume_create
    \/ remote_setup
    \/ remote_run_d
    \/ remote_stage
    \/ remote_symlink
    \/ remote_build
    \/ remote_copy_back
    \/ DeleteContainer_drop
    \/ DeleteVolume_drop
    \/ remote_return
    \/ peer_discover
    \/ peer_container_state
    \/ peer_reconcile_stop
    \/ peer_reconcile_rm
    \/ peer_reconcile_volume
    \/ peer_volume_create
    \/ peer_run_d
    \/ peer_use
    \/ peer_DeleteContainer_drop
    \/ peer_DeleteVolume_drop
    \/ peer_return

SpecConcurrent == InitConcurrent /\ [][NextConcurrent]_vars

\* positions of remote_run between its Acquire and its Release
Using == {"stage", "symlink", "build", "copy_back"}

\* C11: two concurrent invocations for the same project, target and
\* toolchain compute the same container and volume names and nothing
\* excludes one from the other: while one is between its Acquire and its
\* Release, the other's reconciliation can stop and remove the container and
\* remove the Discard volume it is using, and so can the other's release.
C11_NotExcluded ==
    /\ PeerContainer = Container
    /\ (peer.volume.kind # "None" /\ peer.volume.kind = volume.kind)
          => peer.volume = volume
    /\ (pc \in Using /\ world.cstate = "running"
           /\ peer.pc = "reconcile_stop" /\ ~is_stopped(peer.state))
          => ENABLED (peer_reconcile_stop /\ world'.cstate = "exited")
    /\ (pc \in Using /\ world.cstate = "exited"
           /\ peer.pc = "reconcile_rm" /\ exists(peer.state))
          => ENABLED (peer_reconcile_rm /\ world'.cstate = "")
    /\ (pc \in Using /\ volume.kind = "Discard" /\ world.cstate = ""
           /\ peer.pc = "reconcile_volume" /\ Container \in world.vols)
          => ENABLED (peer_reconcile_volume /\ Container \notin world'.vols)
    /\ (pc \in Using /\ world.cstate = "running"
           /\ peer.pc = "drop" /\ peer.guards = <<"DeleteVolume", "DeleteContainer">>)
          => ENABLED (peer_DeleteContainer_drop /\ world'.cstate = "")

\* the first invocation started its container on a Discard volume and is
\* still using it; the second has finished its reconciliation, and neither
\* the container nor the volume exists any more
C11_Witness ==
    /\ pc \in Using /\ volume.kind = "Discard"
    /\ \E i \in 1..Len(trace) : Issued(i, "run", "start") /\ Success(trace[i].res)
    /\ peer.pc = "volume_create" /\ peer.volume = volume
    /\ world.cstate = ""
    /\ Container \notin world.vols

\* ================================================ termination and rerun
\* std::process::exit(130)
Terminated == 130

\* positions of remote_run after Acquire and before the guards are dropped
Acquiring == {"setup", "run_d"} \cup Using

\* first entry of the log of an invocation that follows a killed one: the
\* position the killed one was at
Killed(at) == Entry("exit", Container, Ok(Terminated), "killed", <<at>>)

AfterKill == trace # <<>> /\ trace[1].phase = "killed"

\* slip: the process unwinds before it exits, so its guards run
termination_handler_unwinds ==
    /\ pc \in Acquiring
    /\ ~AfterKill
    /\ trace' = <<Killed(pc)>>
    /\ pc' = "drop"
    /\ ret' = Err("terminated")
    /\ UNCHANGED <<world, is_remote, dirs, volume, state, guards, staged,
                   status, result, peer, eval>>

\* termination_handler: the process exits at once; nothing on its stack is
\* dropped and the engine is not told anything
termination_handler ==
    /\ pc \in Acquiring
    /\ ~AfterKill
    /\ trace' = <<Killed(pc)>>
    /\ pc' = "killed"
    /\ volume' = NoVolume
    /\ state' = "unset"
    /\ guards' = <<>>
    /\ staged' = 0
    /\ status' = Unset
    /\ ret' = Unset
    /\ UNCHANGED <<world, is_remote, dirs, result, peer, eval>>

\* the user runs the same command again
rerun ==
    /\ pc = "killed"
    /\ pc' = "run"
    /\ UNCHANGED <<world, is_remote, dirs, volume, state, guards, staged,
                   status, ret, result, trace, peer, eval>>

\* the first invocation finds an engine without leftovers
InitKilled ==
    /\ world \in {w \in [cstate : {""}, cvol : {""},
                         vols : SUBSET {KeepId(Container)}] : WorldOK(w)}
    /\ is_remote = TRUE
    /\ pc = "run"
    /\ dirs \in [target : TargetDirs, host_root : {HostRoot}]
    /\ volume = NoVolume
    /\ state = "unset"
    /\ guards = <<>>
    /\ staged = 0
    /\ status = Unset
    /\ ret = Unset
    /\ result = Unset
    /\ trace = <<>>
    /\ peer = NoPeer
    /\ eval = NoCall

NextKilled ==
    \/ run
    \/ remote_prepare
    \/ remote_discover
    \/ remote_container_state
    \/ remote_reconcile_stop
    \/ remote_reconcile_rm
    \/ remote_reconcile_volume
    \/ remote_volume_create
    \/ remote_setup
    \/ remote_run_d
    \/ remote_stage
    \/ remote_symlink
    \/ remote_build
    \/ remote_copy_back
    \/ DeleteContainer_drop
    \/ DeleteVolume_drop
    \/ remote_return
    \/ termination_handler
    \/ rerun

SpecKilled == InitKilled /\ [][NextKilled]_vars

\* the placeholder container's `run -d` exited 0
StartedOK ==
    \E i \in 1..Len(trace) : Issued(i, "run", "start") /\ Success(trace[i].res)

\* the invocation running now follows one that was killed while it was
\* using its container
AfterKillInUse == AfterKill /\ trace[1].path[1] \in Using

\* every stop and removal the reconciliation issued exited 0
ReconcileSucceeded ==
    \A i \in 1..Len(trace) :
        (trace[i].phase = "reconcile" /\ trace[i].cmd \in ReconcileRemovals)
            => Success(trace[i].res)

ExitedNonZero(i) == Ran(i) /\ trace[i].res.code # 0

BuildIssued == \E j \in 1..Len(trace) : trace[j].cmd = "exec build"

\* C13: when the symlink script exits non-zero, as it does (`exit 1`) on
\* finding a regular file at a canonical path, remote_run fails with an
\* error and the build command is never executed.
C13_CollisionAborts ==
    (is_remote /\ \E i \in 1..Len(trace) :
                     Issued(i, "exec symlink", "symlink") /\ ExitedNonZero(i))
        => /\ ~BuildIssued
           /\ pc = "done" => ~result.ok

\* C14: when an engine command of acquiring or staging (volume create, the
\* placeholder `run`, `exec mkdir -p`, `cp`) exits non-zero, remote_run
\* reports a failure instead of going on to the build exec.
C14_StagingFailureAborts ==
    \A i \in 1..Len(trace) :
        (is_remote /\ trace[i].phase \in {"acquire", "start", "stage"}
            /\ trace[i].cmd \in {"volume create", "run", "exec mkdir", "cp"}
            /\ ExitedNonZero(i))
            => /\ \A j \in (i + 1)..Len(trace) : trace[j].cmd # "exec build"
               /\ pc = "done" => ~result.ok

\* ====================================================== the symlink script
\* Functions of remote_run are evaluated one at a time on arguments drawn
\* from bounded sets; no invocation of run() is in progress meanwhile.
Idle ==
    /\ world = [cstate |-> "", cvol |-> "", vols |-> {}]
    /\ is_remote = TRUE
    /\ pc = "done"
    /\ dirs = [target |-> <<"ws", "target">>, host_root |-> HostRoot]
    /\ volume = NoVolume
    /\ state = "unset"
    /\ guards = <<>>
    /\ staged = 0
    /\ status = Unset
    /\ ret = Unset
    /\ result = Unset
    /\ trace = <<>>
    /\ peer = NoPeer

Call(fn, arg) == [fn |-> fn, arg |-> arg, out |-> <<>>, done |-> FALSE]

\* the function returned `out`
Return(out) ==
    /\ eval' = [eval EXCEPT !.out = out, !.done = TRUE]
    /\ UNCHANGED <<world, is_remote, pc, dirs, volume, state, guards, staged,
                   status, ret, result, trace, peer>>

\* A directory tree: the kind of the entry at each path, a path being the
\* sequence of its names below the root of the tree.  Names that start
\* with a dot are hidden.
TopNames == {"a", "b"}
SubNames == {"a", ".c"}
Hidden == {".c"}
TreePaths == {<<n>> : n \in TopNames} \cup {<<n, m>> : n \in TopNames, m \in SubNames}

\* an entry exists only in a directory
Trees(kinds) ==
    {t \in [TreePaths -> kinds \cup {"none"}] :
        \A q \in TreePaths :
            (Len(q) = 2 /\ t[q] # "none") => t[<<q[1]>>] = "dir"}

Kind(t, path) == IF path \in DOMAIN t THEN t[path] ELSE "none"

\* names in the order the shell sorts them
Sorted == <<".c", "a", "b">>

\* the names in directory dir of tree t, sorted
Entries(t, dir) ==
    SelectSeq(Sorted, LAMBDA n : Kind(t, Append(dir, n)) # "none")

\* "$1"/* : the entries that are not hidden, or the pattern itself when
\* nothing matches
Glob(t, dir) ==
    LET found == SelectSeq(Entries(t, dir), LAMBDA n : n \notin Hidden) IN
    IF found = <<>> THEN <<"*">> ELSE found

\* symlink_recurse() of the script, run under `set -e` after the staged
\* tree (under the prefix) and the container's own tree (under /) are given:
\*     for f in "${1}"/*; do dst=${f#"$prefix"}
\*         if [ -f "${dst}" ]; then echo ..; exit 1
\*         elif [ -d "${dst}" ]; then symlink_recurse "${f}"
\*         else ln -s "${f}" "${dst}"; fi; done
\* st.code is the exit status so far and st.links the paths at which a
\* symlink to the same path under the prefix was made.  `ln -s` fails on
\* a destination that exists and is neither a file nor a directory.
RECURSIVE symlink_recurse(_, _, _, _), symlink_each(_, _, _, _, _)
symlink_each(under_prefix, canonical, dir, names, st) ==
    IF st.code # 0 \/ names = <<>> THEN st
    ELSE LET f == Append(dir, Head(names))
             dst == Kind(canonical, f)
             st1 == IF dst = "file" THEN [st EXCEPT !.code = 1]
                    ELSE IF dst = "dir"
                    THEN symlink_recurse(under_prefix, canonical, f, st)
                    ELSE IF dst = "none"
                    THEN [st EXCEPT !.links = @ \cup {f}]
                    ELSE [st EXCEPT !.code = 1]
         IN  symlink_each(under_prefix, canonical, dir, Tail(names), st1)

symlink_recurse(under_prefix, canonical, dir, st) ==
    symlink_each(under_prefix, canonical, dir, Glob(under_prefix, dir), st)

\* symlink_recurse "${prefix}"
SymlinkScript(under_prefix, canonical) ==
    symlink_recurse(under_prefix, canonical, <<>>, [code |-> 0, links |-> {}])

\* the staged tree holds files and directories and is never empty; the
\* container's tree may also hold entries of other kinds
StagedTrees == {t \in Trees({"file", "dir"}) : \E n \in TopNames : t[<<n>>] # "none"}
ContainerTrees == Trees({"file", "dir", "other"})

InitSymlink ==
    /\ Idle
    /\ eval \in {Call("symlink_recurse", <<t, c>>) : t \in StagedTrees, c \in ContainerTrees}

exec_symlink ==
    /\ eval.fn = "symlink_recurse" /\ ~eval.done
    /\ Return(SymlinkScript(eval.arg[1], eval.arg[2]))

SpecSymlink == InitSymlink /\ [][exec_symlink]_vars

\* a staged entry the walk comes to: every directory above it also exists
\* as a directory in the container
Reached(under_prefix, canonical, q) ==
    /\ under_prefix[q] # "none"
    /\ \A k \in 1..(Len(q) - 1) : Kind(canonical, SubSeq(q, 1, k)) = "dir"

\* C15: for each staged path /cross/X the walk comes to, the script exits
\* non-zero when /X is a regular file, goes into it when /X is a directory
\* and makes the symlink /X -> /cross/X otherwise; when nothing pre-exists
\* at the canonical paths it makes exactly one symlink per top-level staged
\* entry and none below.
C15_SymlinkPerStagedPath ==
    (eval.fn = "symlink_recurse" /\ eval.done)
        => LET under_prefix == eval.arg[1]
               canonical == eval.arg[2]
           IN  /\ (\E q \in TreePaths : /\ Reached(under_prefix, canonical, q)
                                        /\ canonical[q] = "file")
                      => eval.out.code # 0
               /\ eval.out.code = 0
                      => \A q \in TreePaths :
                            Reached(under_prefix, canonical, q)
                                => \/ canonical[q] = "dir"
                                   \/ canonical[q] = "none" /\ q \in eval.out.links
               /\ (\A q \in TreePaths : canonical[q] = "none")
                      => /\ eval.out.code = 0
                         /\ eval.out.links
                                = {<<n>> : n \in {m \in TopNames : under_prefix[<<m>>] # "none"}}

\* ========================================================= cache markers
\* let mut buffer = [b'0'; 43];
BufferLen == 43

\* b"Signature: 8a477f597d28d172789f06886806bc55", byte by byte
Signature ==
    <<"S", "i", "g", "n", "a", "t", "u", "r", "e", ":", " ",
        "8", "a", "4", "7", "7", "f", "5", "9", "7", "d", "2",
        "8", "d", "1", "7", "2", "7", "8", "9", "f", "0", "6",
        "8", "8", "6", "8", "0", "6", "b", "c", "5", "5">>

\* bytes that may follow or replace those of the signature, and how many of
\* them a file holds after byte 43
OtherBytes == {"\n", "#"}
MaxExtra == 2

\* Result<T> of the file operations
Value(v) == [ok |-> TRUE, val |-> v]
IoError == [ok |-> FALSE, val |-> FALSE]

\* file.read_exact(&mut buffer): fills the whole buffer from the start of
\* the file, or fails when the file ends before
read_exact(content, n) ==
    IF Len(content) < n THEN IoError ELSE Value(SubSeq(content, 1, n))

\* slip: the whole file is read and compared
is_cachedir_tag_whole(file) ==
    IF file = None THEN IoError
    ELSE Value(file[1] = Signature)

\* is_cachedir_tag(path); `file` is None when nothing can be opened at
\* path and Some(content) otherwise
is_cachedir_tag(file) ==
    IF file = None THEN IoError
    ELSE LET buffer == read_exact(file[1], BufferLen) IN
         IF ~buffer.ok THEN IoError
         ELSE Value(buffer.val = Signature)

\* is_cachedir(entry): entry is a directory and
\*     path.exists() && is_cachedir_tag(&path).unwrap_or(false)
\* for path = entry.path().join("CACHEDIR.TAG")
is_cachedir(is_dir, tag_file) ==
    IF is_dir
    THEN tag_file # None
         /\ (IF is_cachedir_tag(tag_file).ok THEN is_cachedir_tag(tag_file).val ELSE FALSE)
    ELSE FALSE

\* contents of a CACHEDIR.TAG file: the signature cut short, the signature
\* with one byte replaced, and either of them followed by more bytes
Altered(i, b) == [Signature EXCEPT ![i] = b]
Extras == UNION {[1..k -> OtherBytes] : k \in 1..MaxExtra}
TagContents ==
    {SubSeq(Signature, 1, k) : k \in 0..BufferLen}
        \cup {Altered(i, b) : i \in 1..BufferLen, b \in OtherBytes}
        \cup {Signature \o x : x \in Extras}
        \cup {Altered(BufferLen, "#") \o x : x \in Extras}
TagFiles == {None} \cup {Some(c) : c \in TagContents}

InitCachedir ==
    /\ Idle
    /\ eval \in {Call("is_cachedir", <<d, f>>) : d \in BOOLEAN, f \in TagFiles}

is_cachedir_entry ==
    /\ eval.fn = "is_cachedir" /\ ~eval.done
    /\ Return(is_cachedir(eval.arg[1], eval.arg[2]))

SpecCachedir == InitCachedir /\ [][is_cachedir_entry]_vars

\* is_cachedir was evaluated on a directory that holds a CACHEDIR.TAG
TagChecked == eval.fn = "is_cachedir" /\ eval.done /\ eval.arg[1] /\ eval.arg[2] # None

\* C17 as stated: a directory is a cache directory only if its CACHEDIR.TAG
\* is exactly the 43-byte signature; a differing byte, a shorter file or
\* more content after the 43 bytes make it a non-cache directory.
C17_ExactSignature ==
    (eval.fn = "is_cachedir" /\ eval.done)
        => (eval.out <=> /\ eval.arg[1]
                         /\ eval.arg[2] # None
                         /\ eval.arg[2][1] = Signature)

\* C17 amended: a directory is a cache directory only if its CACHEDIR.TAG
\* starts with the 43-byte signature: a file shorter than 43 bytes or one
\* that differs from the signature in any of its first 43 bytes makes it a
\* non-cache directory, and so does a missing tag or an entry that is no
\* directory; content after the 43 bytes is not looked at.
C17_SignaturePrefix ==
    /\ (eval.fn = "is_cachedir" /\ eval.done /\ ~(eval.arg[1] /\ eval.arg[2] # None))
          => ~eval.out
    /\ TagChecked
          => LET content == eval.arg[2][1] IN
             /\ content = Signature => eval.out
             /\ Len(content) < Len(Signature) => ~eval.out
             /\ (\E i \in 1..Len(Signature) :
                    i <= Len(content) /\ content[i] # Signature[i]) => ~eval.out
             /\ (\E x \in Extras : content = Signature \o x) => eval.out

\* a tag file that goes on after the signature marks a cache directory
C17_Witness ==
    /\ TagChecked
    /\ Len(eval.arg[2][1]) > Len(Signature)
    /\ eval.out = TRUE

\* ======================================================= staging copies
\* A host tree: files, directories without a CACHEDIR.TAG ("dir"),
\* directories whose CACHEDIR.TAG is the signature ("tagged") and
\* directories whose CACHEDIR.TAG is something else ("mistagged").
HostKinds == {"file", "dir", "tagged", "mistagged"}
HostTrees ==
    {t \in [TreePaths -> HostKinds \cup {"none"}] :
        \A q \in TreePaths :
            (Len(q) = 2 /\ t[q] # "none") => t[<<q[1]>>] \in HostKinds \ {"file"}}

IsDir(kind) == kind \in {"dir", "tagged", "mistagged"}

TagOf(kind) ==
    CASE kind = "tagged" -> Some(Signature)
      [] kind = "mistagged" -> Some(Altered(1, "#"))
      [] OTHER -> None

\* the closure handed to copy_dir by copy_volume_files_nocache:
\*     |e, _| !is_cachedir(e)
skip_nocache(t, entry, depth) == ~is_cachedir(IsDir(t[entry]), TagOf(t[entry]))

\* copy_dir(src, dst, depth, skip): the paths, relative to src, that exist
\* under dst afterwards
RECURSIVE copy_dir(_, _, _)
copy_dir(t, dir, depth) ==
    UNION {IF skip_nocache(t, Append(dir, n), depth) THEN {}
           ELSE IF t[Append(dir, n)] = "file" THEN {Append(dir, n)}
           ELSE {Append(dir, n)} \cup copy_dir(t, Append(dir, n), depth + 1)
             : n \in {m \in TopNames \cup SubNames : Kind(t, Append(dir, m)) # "none"}}

\* `docker cp -a src container:dst` transfers everything below src
copy_volume_files(t) == {q \in TreePaths : t[q] # "none"}

\* copy_volume_files_nocache: copy_dir into a temporary directory, which
\* is then transferred as a whole
copy_volume_files_nocache(t) == copy_dir(t, <<>>, 0)

\* let copy = |src, dst| if copy_cache { copy_volume_files(..) }
\*                       else { copy_volume_files_nocache(..) };
copy(copy_cache, t) ==
    IF copy_cache THEN copy_volume_files(t) ELSE copy_volume_files_nocache(t)

InitCopy ==
    /\ Idle
    /\ eval \in {Call("copy", <<c, t>>) : c \in BOOLEAN, t \in HostTrees}

copy_host_root ==
    /\ eval.fn = "copy" /\ ~eval.done
    /\ Return(copy(eval.arg[1], eval.arg[2]))

SpecCopy == InitCopy /\ [][copy_host_root]_vars

\* q is, or lies inside, a directory whose CACHEDIR.TAG is the signature
InCache(t, q) == \E k \in 1..Len(q) : t[SubSeq(q, 1, k)] = "tagged"

\* C16: with the copy-cache toggle off, the copy transfers every file and
\* directory that is not inside a directory carrying a valid CACHEDIR.TAG
\* and no directory that carries one; with the toggle on it transfers the
\* whole tree.
C16_CopySkipsCaches ==
    (eval.fn = "copy" /\ eval.done)
        => LET copy_cache == eval.arg[1]
               t == eval.arg[2]
           IN  \A q \in TreePaths :
                  /\ (t[q] # "none" /\ (copy_cache \/ ~InCache(t, q)))
                        => q \in eval.out
                  /\ (t[q] = "tagged" /\ ~copy_cache) => q \notin eval.out

\* ==================================================== resource identity
PackageNames == {"hello", "hello-cli"}
Triples == {"aarch64-unknown-linux-gnu", "armv7-unknown-linux-gnueabihf"}
ManifestPaths == {"/home/user/crate1/Cargo.toml",
                  "/home/user/crate125/Cargo.toml",
                  "/home/user/crate497/Cargo.toml"}
Sysroots == {"/home/user/.rustup/toolchains/stable-x86_64-unknown-linux-gnu",
             "/home/user/.rustup/toolchains/nightly-2019-12-11-x86_64-unknown-linux-gnu",
             "/home/user/.rustup/toolchains/nightly-2021-01-24-x86_64-unknown-linux-gnu"}
VersionMetas == {[commit_hash |-> Some("fe5b13d68"), short_version_string |-> "rustc 1.61.0"],
                 [commit_hash |-> Some("a8314ef7d"), short_version_string |-> "rustc 1.62.0"],
                 [commit_hash |-> None, short_version_string |-> "rustc 1.62.0"]}

Projects == [name : PackageNames, triple : Triples, manifest_path : ManifestPaths,
             sysroot : Sysroots, version_meta : VersionMetas]

\* two invocations, each computing its container name
InitIdentifier ==
    /\ Idle
    /\ eval \in {Call("remote_identifier", <<p, q>>) : p \in Projects, q \in Projects}

remote_identifiers ==
    /\ eval.fn = "remote_identifier" /\ ~eval.done
    /\ Return(<<Identifier(eval.arg[1]), Identifier(eval.arg[2])>>)

SpecIdentifier == InitIdentifier /\ [][remote_identifiers]_vars

\* the five inputs of the identity: package name, target triple, manifest
\* path, sysroot path and the toolchain's commit hash (its short version
\* string when it reports no commit hash)
Inputs(p) ==
    <<p.name, p.triple, p.manifest_path, p.sysroot,
      unwrap_or(p.version_meta.commit_hash, p.version_meta.short_version_string)>>

\* the inputs in which p and q differ
Differing(p, q) == {k \in 1..5 : Inputs(p)[k] # Inputs(q)[k]}

\* C18 as stated: equal inputs give the same string and tuples that differ
\* in any single input give different strings.
C18_IdentityInjective ==
    (eval.fn = "remote_identifier" /\ eval.done)
        => LET d == Differing(eval.arg[1], eval.arg[2]) IN
           /\ d = {} => eval.out[1] = eval.out[2]
           /\ Cardinality(d) = 1 => eval.out[1] # eval.out[2]

\* C18 amended: equal inputs give the same string; tuples that differ only
\* in the package name, only in the triple or only in the commit hash give
\* different strings; tuples that differ only in the manifest path, or only
\* in the sysroot path, give different strings exactly when the first five
\* hex digits of the SHA-1 digests of the two paths differ.
C18_IdentityUpToHash ==
    (eval.fn = "remote_identifier" /\ eval.done)
        => LET p == eval.arg[1]
               q == eval.arg[2]
               d == Differing(p, q)
           IN  /\ d = {} => eval.out[1] = eval.out[2]
               /\ (Cardinality(d) = 1 /\ d \subseteq {1, 2, 5})
                     => eval.out[1] # eval.out[2]
               /\ d = {3} => (eval.out[1] # eval.out[2]
                                <=> Sha1Digest(p.manifest_path)[1]
                                        # Sha1Digest(q.manifest_path)[1])
               /\ d = {4} => (eval.out[1] # eval.out[2]
                                <=> Sha1Digest(p.sysroot)[1] # Sha1Digest(q.sysroot)[1])

\* two projects that differ in their manifest path only get the same name
C18_Witness ==
    /\ eval.fn = "remote_identifier" /\ eval.done
    /\ Differing(eval.arg[1], eval.arg[2]) = {3}
    /\ Sha1Digest(eval.arg[1].manifest_path) # Sha1Digest(eval.arg[2].manifest_path)
    /\ eval.out[1] = eval.out[2]

\* ===================================================== ContainerState::new
\* strings handed to ContainerState::new: the states an engine prints, in
\* other spellings too, each alone or with something before or after it
Spellings == EngineStates \cup {"Running", "EXITED", "Dead", "stopped", "up",
                                "DoesNotExist", "none"}
StateStrings ==
    {before \o s \o after : before \in {"", " "}, s \in Spellings,
                            after \in {"", "\n", "d", " (0)"}}

InitContainerState ==
    /\ Idle
    /\ eval \in {Call("ContainerState::new", s) : s \in StateStrings}

ContainerState_new_call ==
    /\ eval.fn = "ContainerState::new" /\ ~eval.done
    /\ Return(ContainerState_new(eval.arg))

SpecContainerState == InitContainerState /\ [][ContainerState_new_call]_vars

\* C19: ContainerState::new maps exactly "created", "running", "paused",
\* "restarting", "dead", "exited" and "" to Created, Running, Paused,
\* Restarting, Dead, Exited and DoesNotExist, and is an error for every
\* other string.
C19_SevenStates ==
    (eval.fn = "ContainerState::new" /\ eval.done)
        => LET known == {<<"created", "Created">>, <<"running", "Running">>,
                         <<"paused", "Paused">>, <<"restarting", "Restarting">>,
                         <<"dead", "Dead">>, <<"exited", "Exited">>,
                         <<"", "DoesNotExist">>}
           IN  /\ \A k \in known :
                     eval.arg = k[1] => (eval.out.ok /\ eval.out.state = k[2])
               /\ eval.out.ok
                     => /\ eval.out.state \in ContainerStates
                        /\ <<eval.arg, eval.out.state>> \in known

\* a state the engine reports and the enumeration lacks is an error
C19_Witness ==
    /\ eval.fn = "ContainerState::new" /\ eval.done
    /\ eval.arg = "removing"
    /\ ~eval.out.ok

\* ============================================================ MountFinder
\* An absolute path is the sequence of its components; "/" is <<>>.
MaxDepth == 3
MaxMounts == 2
Components == {"project", "target", "test", "path"}
Paths == UNION {[1..k -> Components] : k \in 0..MaxDepth}

\* path.as_os_str().len(): the bytes of the path as written
RECURSIVE os_str_len(_)
os_str_len(path) ==
    IF path = <<>> THEN 1
    ELSE IF Len(path) = 1 THEN 1 + Len(path[1])
    ELSE os_str_len(SubSeq(path, 1, Len(path) - 1)) + 1 + Len(path[Len(path)])

\* path.strip_prefix(base): the rest of path when base is made of its
\* first components
strip_prefix(path, base) ==
    IF IsInside(path, base)
    THEN Value(SubSeq(path, Len(base) + 1, Len(path)))
    ELSE IoError

\* slip: the joined path replaces the base
join_replace(base, rest) == rest

\* base.join(rest), rest being relative
join(base, rest) == base \o rest

\* mounts.sort_by(|a, b| la.cmp(&lb).reverse()), a stable sort:
\* destinations with more bytes first, ties in their given order
RECURSIVE sort_by_len(_)
sort_by_len(mounts) ==
    IF mounts = <<>> THEN <<>>
    ELSE LET longest == CHOOSE i \in 1..Len(mounts) :
                 \A j \in 1..Len(mounts) :
                     \/ os_str_len(mounts[j].destination) < os_str_len(mounts[i].destination)
                     \/ /\ os_str_len(mounts[j].destination) = os_str_len(mounts[i].destination)
                        /\ i <= j
         IN  <<mounts[longest]>> \o sort_by_len(Without(mounts, longest))

\* slip: the mounts are kept in the order they were given
MountFinder_new_unsorted(mounts) == mounts

\* MountFinder::new
MountFinder_new(mounts) == sort_by_len(mounts)

\* MountFinder::default(): mounts is an empty Vec
MountFinder_default == <<>>

\* slip: a path no mount contains is taken for the root
find_mount_path_root(mounts, path) ==
    LET hits == {i \in 1..Len(mounts) : strip_prefix(path, mounts[i].destination).ok} IN
    IF hits = {} THEN <<>>
    ELSE LET first == CHOOSE i \in hits : \A j \in hits : i <= j IN
         join(mounts[first].source, strip_prefix(path, mounts[first].destination).val)

\* MountFinder::find_mount_path: the first mount whose destination the
\* path starts with rebases it; without one the path itself
find_mount_path(mounts, path) ==
    LET hits == {i \in 1..Len(mounts) : strip_prefix(path, mounts[i].destination).ok} IN
    IF hits = {} THEN path
    ELSE LET first == CHOOSE i \in hits : \A j \in hits : i <= j IN
         join(mounts[first].source, strip_prefix(path, mounts[first].destination).val)

MountDetails == [source : {<<"host">>, <<"host", "path">>},
                 destination : {<<>>, <<"project">>, <<"project", "target">>}]
MountTables == UNION {[1..k -> MountDetails] : k \in 0..MaxMounts}

\* a finder is made by MountFinder::new from the mounts read off the
\* engine, or by default() when cross does not run in a container
InitMountFinder ==
    /\ Idle
    /\ eval \in {Call("find_mount_path", <<m, p>>) : m \in MountTables, p \in Paths}

find_mount_path_call ==
    /\ eval.fn = "find_mount_path" /\ ~eval.done
    /\ Return(find_mount_path(IF eval.arg[1] = <<>> THEN MountFinder_default
                              ELSE MountFinder_new(eval.arg[1]),
                              eval.arg[2]))

SpecMountFinder == InitMountFinder /\ [][find_mount_path_call]_vars

\* C20: for every path P, find_mount_path on a finder with an empty mount
\* table returns P unchanged.
C20_DefaultFinderReturnsOriginal ==
    (eval.fn = "find_mount_path" /\ eval.done /\ eval.arg[1] = <<>>)
        => eval.out = eval.arg[2]

\* test_default_finder_returns_original: /test/path on the default finder
C20_Witness ==
    /\ eval.fn = "find_mount_path" /\ eval.done
    /\ eval.arg = <<MountFinder_default, <<"test", "path">>>>
    /\ eval.out = <<"test", "path">>

\* ---------------------------------------------------- MountFinder::new
\* the orders in which a mount table can be handed to MountFinder::new
Orders(mounts) ==
    {[i \in 1..Len(mounts) |-> mounts[f[i]]] : f \in Permutations(1..Len(mounts))}

InitMountOrder ==
    /\ Idle
    /\ eval \in UNION {{Call("MountFinder::new", <<m, n, p>>) :
                            n \in Orders(m), p \in Paths} : m \in MountTables}

\* the same path looked up in the finders made of the two orders
MountFinder_new_call ==
    /\ eval.fn = "MountFinder::new" /\ ~eval.done
    /\ Return(<<find_mount_path(MountFinder_new(eval.arg[1]), eval.arg[3]),
                find_mount_path(MountFinder_new(eval.arg[2]), eval.arg[3])>>)

SpecMountOrder == InitMountOrder /\ [][MountFinder_new_call]_vars

\* the entries of a table whose destination is a prefix of the path, and
\* those of them with the longest destination
PrefixEntries(mounts, path) ==
    {i \in 1..Len(mounts) : IsInside(path, mounts[i].destination)}
LongestEntries(mounts, path) ==
    {i \in PrefixEntries(mounts, path) :
        \A j \in PrefixEntries(mounts, path) :
            Len(mounts[j].destination) <= Len(mounts[i].destination)}
Rebased(mount, path) ==
    mount.source \o SubSeq(path, Len(mount.destination) + 1, Len(path))
OneSourcePerDestination(mounts) ==
    \A i, j \in 1..Len(mounts) :
        mounts[i].destination = mounts[j].destination
            => mounts[i].source = mounts[j].source

\* C21 as stated: for every mount table and every path P, the entry with
\* the longest destination among those whose destination is a prefix of P
\* is the one used, and the result is the same for every permutation of the
\* list passed to MountFinder::new.
C21_LongestWinsAnyOrder ==
    (eval.fn = "MountFinder::new" /\ eval.done)
        => /\ \A i \in LongestEntries(eval.arg[1], eval.arg[3]) :
                  eval.out[1] = Rebased(eval.arg[1][i], eval.arg[3])
           /\ eval.out[1] = eval.out[2]

\* C21, amended: for every mount table in which entries of equal
\* destination have equal sources, the entry with the longest destination
\* among those whose destination is a prefix of P is the one used, whatever
\* the order of the list; among entries of equal destination the one given
\* first is used.
C21_LongestWinsDistinct ==
    (eval.fn = "MountFinder::new" /\ eval.done)
        => LET m == eval.arg[1]
               n == eval.arg[2]
               p == eval.arg[3]
               FirstLongest(t) ==
                   CHOOSE i \in LongestEntries(t, p) :
                       \A j \in LongestEntries(t, p) : i <= j
           IN  /\ PrefixEntries(m, p) # {}
                    => /\ eval.out[1] = Rebased(m[FirstLongest(m)], p)
                       /\ eval.out[2] = Rebased(n[FirstLongest(n)], p)
               /\ OneSourcePerDestination(m) => eval.out[1] = eval.out[2]

\* test_longest_destination_path_wins, the shorter destination given first
\* and given last
C21_Witness ==
    /\ eval.fn = "MountFinder::new" /\ eval.done
    /\ eval.arg[1] = <<[source |-> <<"host">>, destination |-> <<"project">>],
                       [source |-> <<"host", "path">>,
                        destination |-> <<"project", "target">>]>>
    /\ eval.arg[2] = <<eval.arg[1][2], eval.arg[1][1]>>
    /\ eval.arg[3] = <<"project", "target", "test">>
    /\ eval.out = <<<<"host", "path", "test">>, <<"host", "path", "test">>>>

\* C22: for a path P whose selected mount entry has destination D and
\* source S, find_mount_path returns S joined with the remainder of P
\* relative to D, which is S itself when P equals D; when no entry's
\* destination is a prefix of P, P is returned unchanged.
C22_RebasedOnSelected ==
    (eval.fn = "find_mount_path" /\ eval.done)
        => LET m == eval.arg[1]
               p == eval.arg[2]
               selected == CHOOSE i \in LongestEntries(m, p) :
                               \A j \in LongestEntries(m, p) : i <= j
           IN  IF PrefixEntries(m, p) = {}
               THEN eval.out = p
               ELSE /\ eval.out = Rebased(m[selected], p)
                    /\ p = m[selected].destination
                           => eval.out = m[selected].source

\* test_adjust_multiple_paths: /project on the finder of / and /project
C22_Witness ==
    /\ eval.fn = "find_mount_path" /\ eval.done
    /\ eval.arg[1] = <<[source |-> <<"host">>, destination |-> <<>>],
                       [source |-> <<"host", "path">>,
                        destination |-> <<"project">>]>>
    /\ eval.arg[2] = <<"project">>
    /\ eval.out = <<"host", "path">>

\* ================================================= docker inspect $HOSTNAME
\* A JSON string that holds a path is the sequence of its separators and
\* names; a JSON object is a record whose members are None when the key is
\* missing or holds no string (array for Mounts); the output of
\* `docker inspect` is an array of at most one container object, as
\* serde_json::from_str returns it.
Slash == "/"
IsName(token) == token # Slash

\* PathBuf::from(&str), compared as Path compares: by components, repeated
\* and trailing separators dropped
PathBuf_from(s) == SelectSeq(s, IsName)

Options(S) == {None} \cup {Some(x) : x \in S}

\* eyre::eyre!(..) / eyre::bail!(..)
Report(msg) == [ok |-> FALSE, err |-> msg]

DriverNames == {"overlay2", "overlay", "btrfs", "vfs", "fuse-overlayfs"}
MergedDirs == {<<Slash, "host", Slash, "path">>, <<Slash, "host", Slash>>}
GraphDrivers ==
    [Name : Options(DriverNames),
     Data : Options([MergedDir : Options(MergedDirs)])]
UserMounts ==
    {<<>>, <<[Source |-> <<Slash, "host", Slash, "path">>,
              Destination |-> <<Slash, "project">>]>>}
InspectOutputs ==
    {<<>>} \cup {<<c>> : c \in [GraphDriver : Options(GraphDrivers),
                               Mounts : Options(UserMounts)]}

\* info.pointer("/0/GraphDriver/Name").and_then(|v| v.as_str())
pointer_Name(info) ==
    IF info = <<>> THEN None
    ELSE IF info[1].GraphDriver = None THEN None
    ELSE info[1].GraphDriver[1].Name

\* info.pointer("/0/GraphDriver/Data/MergedDir").and_then(|v| v.as_str())
pointer_MergedDir(info) ==
    IF info = <<>> THEN None
    ELSE IF info[1].GraphDriver = None THEN None
    ELSE IF info[1].GraphDriver[1].Data = None THEN None
    ELSE info[1].GraphDriver[1].Data[1].MergedDir

\* info.pointer("/0/Mounts").and_then(|v| v.as_array())
pointer_Mounts(info) ==
    IF info = <<>> THEN None ELSE info[1].Mounts

\* slip: the merged directory of any storage driver is taken
dockerinfo_parse_root_mount_path_anydriver(info) ==
    LET driver_name == pointer_Name(info)
        path == pointer_MergedDir(info)
    IN  IF driver_name = None THEN Report("no driver name found")
        ELSE IF path = None THEN Report("No merge directory found")
        ELSE Value([source |-> PathBuf_from(path[1]),
                    destination |-> PathBuf_from(<<Slash>>)])

dockerinfo_parse_root_mount_path(info) ==
    LET driver_name == pointer_Name(info)
        path == pointer_MergedDir(info)
    IN  IF driver_name = None THEN Report("no driver name found")
        ELSE IF driver_name[1] = "overlay2"
        THEN IF path = None THEN Report("No merge directory found")
             ELSE Value([source |-> PathBuf_from(path[1]),
                         destination |-> PathBuf_from(<<Slash>>)])
        ELSE Report("want driver overlay2")

dockerinfo_parse_user_mounts(info) ==
    LET v == pointer_Mounts(info) IN
    IF v = None THEN <<>>
    ELSE [i \in 1..Len(v[1]) |->
             [source |-> PathBuf_from(v[1][i].Source),
              destination |-> PathBuf_from(v[1][i].Destination)]]

dockerinfo_parse_mounts(info) ==
    LET mounts == dockerinfo_parse_user_mounts(info)
        root_info == dockerinfo_parse_root_mount_path(info)
    IN  IF ~root_info.ok THEN root_info
        ELSE Value(Append(mounts, root_info.val))

\* `inspect` is what HOSTNAME, which(docker), `docker inspect` and
\* serde_json::from_str made of the container: the parsed array, or the
\* error of the first of them that failed
docker_read_mount_paths(inspect) ==
    IF ~inspect.ok THEN inspect ELSE dockerinfo_parse_mounts(inspect.val)

Inspections == {Report("failed to parse docker inspect output")}
                   \cup {Value(info) : info \in InspectOutputs}

\* ====================================================== Directories::create
\* home::cargo_home(), XARGO_HOME or ~/.xargo; a home directory is found
CargoHome == <<"home", ".cargo">>
XargoHome == <<"home", ".xargo">>

\* env holds what create reads off the process: the inspection of its own
\* container and NIX_STORE
Directories_create(metadata, cwd, sysroot, docker_in_docker, env) ==
    LET read == IF docker_in_docker THEN docker_read_mount_paths(env.inspect)
                ELSE Value(<<>>)
    IN  IF ~read.ok THEN read
        ELSE LET mount_finder == IF docker_in_docker THEN MountFinder_new(read.val)
                                 ELSE MountFinder_default
                 host_root == find_mount_path(mount_finder,
                                  IF IsInside(metadata.workspace_root, cwd)
                                  THEN cwd ELSE metadata.workspace_root)
             IN  Value([cargo |-> find_mount_path(mount_finder, CargoHome),
                        xargo |-> find_mount_path(mount_finder, XargoHome),
                        target |-> find_mount_path(mount_finder, metadata.target_directory),
                        nix_store |-> env.NIX_STORE,
                        host_root |-> host_root,
                        mount_root |-> find_mount_path(mount_finder, host_root),
                        mount_cwd |-> find_mount_path(mount_finder, cwd),
                        sysroot |-> find_mount_path(mount_finder, sysroot)])

Sysroot == <<"home", ".rustup", "stable">>
Workspace == [workspace_root |-> <<"project">>,
              target_directory |-> <<"project", "target">>]

\* the current directory: the workspace root, inside it, above it, and
\* elsewhere
WorkingDirectories == {<<"project">>, <<"project", "path">>, <<>>, <<"test">>}

InitDirectories ==
    /\ Idle
    /\ eval \in {Call("Directories::create",
                      [metadata |-> Workspace, cwd |-> cwd, sysroot |-> Sysroot,
                       docker_in_docker |-> d,
                       env |-> [inspect |-> i, NIX_STORE |-> None]]) :
                     cwd \in WorkingDirectories,
                     d \in BOOLEAN, i \in Inspections}

\* the mount table create reads, and the Directories it returns
Directories_create_call ==
    /\ eval.fn = "Directories::create" /\ ~eval.done
    /\ Return([mounts |-> IF eval.arg.docker_in_docker
                          THEN docker_read_mount_paths(eval.arg.env.inspect)
                          ELSE Value(<<>>),
               dirs |-> Directories_create(eval.arg.metadata, eval.arg.cwd,
                            eval.arg.sysroot, eval.arg.docker_in_docker,
                            eval.arg.env)])

SpecDirectories == InitDirectories /\ [][Directories_create_call]_vars

\* C23: parsing the inspection of cross's own container yields a root entry
\* (source the GraphDriver MergedDir, destination "/") exactly when the
\* storage driver name is "overlay2" and MergedDir is present; with any
\* other driver name, or without a driver name or MergedDir, the mount
\* table is an error and Directories::create returns no Directories.
C23_RootEntryIffOverlay2 ==
    (/\ eval.fn = "Directories::create" /\ eval.done
     /\ eval.arg.docker_in_docker /\ eval.arg.env.inspect.ok)
        => LET info == eval.arg.env.inspect.val
               driver == IF info = <<>> THEN None ELSE info[1].GraphDriver
               overlay2 == driver # None /\ driver[1].Name = <<"overlay2">>
               merged == IF driver = None \/ driver[1].Data = None THEN None
                         ELSE driver[1].Data[1].MergedDir
               IsRoot(m) == /\ m.destination = <<>>
                            /\ m.source = SelectSeq(merged[1], IsName)
           IN  IF overlay2 /\ merged # None
               THEN /\ eval.out.mounts.ok
                    /\ \E i \in 1..Len(eval.out.mounts.val) :
                           IsRoot(eval.out.mounts.val[i])
                    /\ eval.out.dirs.ok
               ELSE ~eval.out.mounts.ok /\ ~eval.out.dirs.ok

\* test_parse_container_root, with a user mount next to the root
C23_Witness ==
    /\ eval.fn = "Directories::create" /\ eval.done
    /\ eval.arg.docker_in_docker /\ eval.arg.env.inspect.ok
    /\ eval.arg.env.inspect.val # <<>>
    /\ eval.arg.env.inspect.val[1].GraphDriver =
           <<[Name |-> <<"overlay2">>,
              Data |-> <<[MergedDir |-> <<<<Slash, "host", Slash>>>>]>>]>>
    /\ eval.arg.env.inspect.val[1].Mounts # None
    /\ eval.out.mounts.ok
    /\ eval.out.mounts.val[Len(eval.out.mounts.val)] =
           [source |-> <<"host">>, destination |-> <<>>]
    /\ eval.out.dirs.ok

\* ========================================================= get_engine_type
\* The output of `<engine> --help` is a sequence of fragments of text, the
\* words the classification looks for among them, in the spellings help
\* texts use.
MaxWords == 3
Fragments == {"podman", "-remote", "docker", "emulate",
              "Podman", "Docker", "Emulate", "usage"}
HelpOutputs == UNION {[1..k -> Fragments] : k \in 0..MaxWords}
EnginePaths == {<<"usr", "bin", "docker">>, <<"usr", "bin", "podman">>,
                <<"usr", "bin", "nerdctl">>}
EngineTypes == {"Docker", "Podman", "PodmanRemote", "Other"}

\* str::to_lowercase
to_lowercase(s) ==
    [i \in 1..Len(s) |->
        CASE s[i] = "Podman" -> "podman"
          [] s[i] = "Docker" -> "docker"
          [] s[i] = "Emulate" -> "emulate"
          [] OTHER -> s[i]]

\* str::contains(&str)
contains(s, pat) ==
    \E i \in 0..(Len(s) - Len(pat)) : SubSeq(s, i + 1, i + Len(pat)) = pat

\* slip: "podman" is looked for before "podman-remote"
get_engine_type_podman_first(ce, help) ==
    IF ~help.ok THEN help
    ELSE LET stdout == to_lowercase(help.val) IN
         Value(IF contains(stdout, <<"podman">>) THEN "Podman"
               ELSE IF contains(stdout, <<"podman", "-remote">>) THEN "PodmanRemote"
               ELSE IF contains(stdout, <<"docker">>) /\ ~contains(stdout, <<"emulate">>)
                    THEN "Docker"
               ELSE "Other")

\* `help` is the Result of Command::new(ce).arg("--help")
\* .run_and_get_stdout(verbose)
get_engine_type(ce, help) ==
    IF ~help.ok THEN help
    ELSE LET stdout == to_lowercase(help.val) IN
         Value(IF contains(stdout, <<"podman", "-remote">>) THEN "PodmanRemote"
               ELSE IF contains(stdout, <<"podman">>) THEN "Podman"
               ELSE IF contains(stdout, <<"docker">>) /\ ~contains(stdout, <<"emulate">>)
                    THEN "Docker"
               ELSE "Other")

InitEngineType ==
    /\ Idle
    /\ eval \in {Call("get_engine_type", <<ce, help>>) :
                    ce \in EnginePaths,
                    help \in {Report("--help failed")}
                                 \cup {Value(s) : s \in HelpOutputs}}

get_engine_type_call ==
    /\ eval.fn = "get_engine_type" /\ ~eval.done
    /\ Return(get_engine_type(eval.arg[1], eval.arg[2]))

SpecEngineType == InitEngineType /\ [][get_engine_type_call]_vars

\* C24: the engine is classified by its lowercased `--help` output:
\* PodmanRemote if it contains "podman-remote"; otherwise Podman if it
\* contains "podman"; otherwise Docker if it contains "docker" and does not
\* contain "emulate"; otherwise Other.  The name of the binary plays no
\* part in it.
C24_ClassifiedByHelp ==
    (eval.fn = "get_engine_type" /\ eval.done /\ eval.arg[2].ok)
        => LET s == eval.arg[2].val
               Has(words) == \E i \in 1..Len(s) : s[i] \in words
               podman == Has({"podman", "Podman"})
               podman_remote == \E i \in 1..(Len(s) - 1) :
                                    /\ s[i] \in {"podman", "Podman"}
                                    /\ s[i + 1] = "-remote"
               docker == Has({"docker", "Docker"})
               emulate == Has({"emulate", "Emulate"})
           IN  /\ eval.out.ok
               /\ eval.out.val =
                      (IF podman_remote THEN "PodmanRemote"
                       ELSE IF podman THEN "Podman"
                       ELSE IF docker /\ ~emulate THEN "Docker"
                       ELSE "Other")

\* a binary named docker whose help is that of podman-remote
C24_Witness ==
    /\ eval.fn = "get_engine_type" /\ eval.done
    /\ eval.arg[1] = <<"usr", "bin", "docker">>
    /\ eval.arg[2] = Value(<<"usage", "Podman", "-remote">>)
    /\ eval.out = Value("PodmanRemote")

\* ===================================== docker_command / docker_subcommand
\* Engine, as Engine::from_path builds it
Engines == [kind : EngineTypes, path : EnginePaths, is_remote : BOOLEAN]

\* slip: every podman is told `--remote`
needs_remote_any_podman(engine) ==
    engine.is_remote /\ engine.kind \in {"Podman", "PodmanRemote"}

\* Engine::needs_remote
needs_remote(engine) ==
    engine.is_remote /\ engine.kind = "Podman"

\* a Command: the program and its arguments so far
Command_new(program) == [program |-> program, args |-> <<>>]
arg(command, a) == [command EXCEPT !.args = Append(@, a)]

docker_command(engine) ==
    LET command == Command_new(engine.path) IN
    IF needs_remote(engine) THEN arg(command, "--remote") ELSE command

docker_subcommand(engine, subcommand) ==
    arg(docker_command(engine), subcommand)

\* the subcommands docker.rs builds
Subcommands == {"run", "exec", "cp", "stop", "rm", "ps", "volume", "inspect"}

InitCommand ==
    /\ Idle
    /\ eval \in {Call("docker_command", <<e>>) : e \in Engines}
            \cup {Call("docker_subcommand", <<e, s>>) :
                      e \in Engines, s \in Subcommands}

docker_command_call ==
    /\ eval.fn = "docker_command" /\ ~eval.done
    /\ Return(docker_command(eval.arg[1]))

docker_subcommand_call ==
    /\ eval.fn = "docker_subcommand" /\ ~eval.done
    /\ Return(docker_subcommand(eval.arg[1], eval.arg[2]))

NextCommand == docker_command_call \/ docker_subcommand_call

SpecCommand == InitCommand /\ [][NextCommand]_vars

\* C25: a command built by docker_command or docker_subcommand has
\* `--remote` as its first argument if and only if the engine has
\* is_remote = true and kind = Podman; for Docker, PodmanRemote and Other,
\* and for every engine that is not remote, no argument is `--remote`.
C25_RemoteFlagIffRemotePodman ==
    (eval.fn \in {"docker_command", "docker_subcommand"} /\ eval.done)
        => LET engine == eval.arg[1]
               args == eval.out.args
           IN  IF engine.is_remote /\ engine.kind = "Podman"
               THEN /\ args # <<>> /\ args[1] = "--remote"
                    /\ \A i \in 2..Len(args) : args[i] # "--remote"
               ELSE \A i \in 1..Len(args) : args[i] # "--remote"

\* `podman --remote run` of a remote podman
C25_Witness ==
    /\ eval.fn = "docker_subcommand" /\ eval.done
    /\ eval.arg[1] = [kind |-> "Podman", path |-> <<"usr", "bin", "podman">>,
                      is_remote |-> TRUE]
    /\ eval.out = [program |-> <<"usr", "bin", "podman">>,
                   args |-> <<"--remote", "run">>]

\* ================================================================== image
\* what build.rs compiles in: the target list of docker-images.rs, the
\* crate version and commit-info.txt, which is empty in a release
CROSS_IMAGE == "ghcr.io/cross-rs"
DOCKER_IMAGES == {"aarch64-unknown-linux-gnu", "x86_64-unknown-linux-musl"}
TargetTriples == DOCKER_IMAGES \cup {"x86_64-apple-darwin", "thumbv6m-none-eabi"}
PkgVersions == {"0.2.1", "0.2.4"}
CommitInfos == {"", " (abc1234 2022-06-01)", "\n"}
Builds == [CARGO_PKG_VERSION : PkgVersions, commit_info : CommitInfos]

\* config.image(target): the image the configuration names for the
\* target, if it names one
ConfiguredImages ==
    {Value(None), Value(Some("test-image")),
     Value(Some("ghcr.io/cross-rs/aarch64-unknown-linux-gnu:edge")),
     Report("invalid configuration")}
config_image(config, target) == config[target]

\* slip: a development build is tagged like a release
version_released(build) == build.CARGO_PKG_VERSION

\* if include_str!(".../commit-info.txt").is_empty()
\*     { env!("CARGO_PKG_VERSION") } else { "main" }
version(build) ==
    IF build.commit_info = "" THEN build.CARGO_PKG_VERSION ELSE "main"

\* slip: the supported list is consulted before the configuration
image_supported_only(config, target, build) ==
    IF target \notin DOCKER_IMAGES
    THEN Report("cross does not provide a Docker image for target")
    ELSE LET configured == config_image(config, target) IN
         IF ~configured.ok THEN configured
         ELSE IF configured.val # None THEN Value(configured.val[1])
         ELSE Value(CROSS_IMAGE \o "/" \o target \o ":" \o version(build))

image(config, target, build) ==
    LET configured == config_image(config, target) IN
    IF ~configured.ok THEN configured
    ELSE IF configured.val # None THEN Value(configured.val[1])
    ELSE IF target \notin DOCKER_IMAGES
    THEN Report("cross does not provide a Docker image for target")
    ELSE Value(CROSS_IMAGE \o "/" \o target \o ":" \o version(build))

InitImage ==
    /\ Idle
    /\ eval \in {Call("image", [config |-> [t \in TargetTriples |-> c],
                                target |-> target, build |-> build]) :
                    c \in ConfiguredImages, target \in TargetTriples,
                    build \in Builds}

image_call ==
    /\ eval.fn = "image" /\ ~eval.done
    /\ Return(image(eval.arg.config, eval.arg.target, eval.arg.build))

SpecImage == InitImage /\ [][image_call]_vars

\* C26: when the configuration names an image for the target, image()
\* returns exactly that image for every target triple, those absent from
\* the built-in supported list too, whatever the supported list and the
\* version tag are.
C26_ConfiguredImageReturned ==
    (eval.fn = "image" /\ eval.done)
        => \A name \in {"test-image",
                        "ghcr.io/cross-rs/aarch64-unknown-linux-gnu:edge"} :
               eval.arg.config[eval.arg.target] = [ok |-> TRUE, val |-> <<name>>]
                   => eval.out = [ok |-> TRUE, val |-> name]

\* an image configured for a target cross has no image for, in a
\* development build
C26_Witness ==
    /\ eval.fn = "image" /\ eval.done
    /\ eval.arg.target = "x86_64-apple-darwin"
    /\ eval.arg.target \notin DOCKER_IMAGES
    /\ eval.arg.config[eval.arg.target] = Value(Some("test-image"))
    /\ eval.arg.build.commit_info # ""
    /\ eval.out.ok /\ eval.out.val = "test-image"

\* C27: with no configured image, image() is an error for every triple
\* that is not in the built-in supported list, and for a supported triple
\* it returns ghcr.io/cross-rs/<target>:<tag>, the tag being the crate
\* version when the embedded commit-info is empty and `main` otherwise.
C27_BuiltinImageOrError ==
    (/\ eval.fn = "image" /\ eval.done
     /\ eval.arg.config[eval.arg.target] = [ok |-> TRUE, val |-> <<>>])
        => LET target == eval.arg.target
               tag == IF eval.arg.build.commit_info = ""
                      THEN eval.arg.build.CARGO_PKG_VERSION ELSE "main"
           IN  IF target \in {"aarch64-unknown-linux-gnu",
                              "x86_64-unknown-linux-musl"}
               THEN /\ eval.out.ok
                    /\ eval.out.val = "ghcr.io/cross-rs/" \o target \o ":" \o tag
               ELSE ~eval.out.ok

\* a supported target in a development build of 0.2.1
C27_Witness ==
    /\ eval.fn = "image" /\ eval.done
    /\ eval.arg.target = "aarch64-unknown-linux-gnu"
    /\ eval.arg.config[eval.arg.target] = Value(None)
    /\ eval.arg.build = [CARGO_PKG_VERSION |-> "0.2.1",
                         commit_info |-> " (abc1234 2022-06-01)"]
    /\ eval.out.ok
    /\ eval.out.val = "ghcr.io/cross-rs/aarch64-unknown-linux-gnu:main"

\* ================================================================ local_run
\* The command local_run builds.  Arguments are strings; a path is written
\* out by display().  env_passthrough is empty, no runner is configured,
\* QEMU_STRACE, CROSS_DEBUG, CROSS_CONTAINER_OPTS and DOCKER_OPTS are unset,
\* and every path handed to mount() exists and is canonical.

\* Path::display(), as_os_str(): a separator before every component
RECURSIVE display(_)
display(path) ==
    IF path = <<>> THEN "/"
    ELSE IF Len(path) = 1 THEN "/" \o path[1]
    ELSE display(SubSeq(path, 1, Len(path) - 1)) \o "/" \o path[Len(path)]

\* Command::args
args(command, more) == [command EXCEPT !.args = @ \o more]

\* Engine::new(is_remote, verbose); `found` is the Result of
\* get_container_engine and get_engine_type
Engine_new(is_remote_, found) ==
    IF ~found.ok THEN found
    ELSE Value([kind |-> found.val.kind, path |-> found.val.path,
                is_remote |-> is_remote_])

\* An entry of env.passthrough or env.volumes is written as its pieces,
\* "=" being a piece of its own: VOL=/target is <<"VOL", "=", "/", "target">>.
Equals == "="

\* str::split_once('='): the pieces before and after the first "="
split_once(var) ==
    LET at == {i \in 1..Len(var) : var[i] = Equals} IN
    IF at = {} THEN None
    ELSE LET first == CHOOSE i \in at : \A j \in at : i <= j IN
         Some(<<SubSeq(var, 1, first - 1), SubSeq(var, first + 1, Len(var))>>)

\* the string an entry is
RECURSIVE concat(_)
concat(pieces) ==
    IF pieces = <<>> THEN "" ELSE Head(pieces) \o concat(Tail(pieces))

\* slip: no name is reserved
validate_env_var_any(var) ==
    LET split == split_once(var) IN
    Value([key |-> concat(IF split = None THEN var ELSE split[1][1]),
           value |-> IF split = None THEN None ELSE Some(split[1][2])])

validate_env_var(var) ==
    LET split == split_once(var)
        key == concat(IF split = None THEN var ELSE split[1][1])
        value == IF split = None THEN None ELSE Some(split[1][2])
    IN  IF key = "CROSS_RUNNER"
        THEN Report("CROSS_RUNNER environment variable name is reserved and cannot be pass through")
        ELSE Value([key |-> key, value |-> value])

\* the `?` of the source: the value is handed on, an error is returned
Try(r, then(_)) == IF r.ok THEN then(r.val) ELSE r

\* for ref var in config.env_passthrough(target)? { validate_env_var(var)?;
\*     docker.args(&["-e", var]); }
RECURSIVE env_passthrough(_, _)
env_passthrough(docker, entries) ==
    IF entries = <<>> THEN Value(docker)
    ELSE Try(validate_env_var(Head(entries)),
             LAMBDA valid :
                 env_passthrough(args(docker, <<"-e", concat(Head(entries))>>),
                                 Tail(entries)))

\* docker_envvars, with a user name and without QEMU_STRACE, CROSS_DEBUG,
\* CROSS_CONTAINER_OPTS and DOCKER_OPTS in the environment
docker_envvars(docker, config) ==
    Try(env_passthrough(docker, config.env_passthrough),
        LAMBDA passed :
            Value(args(passed,
                       <<"-e", "PKG_CONFIG_ALLOW_CROSS=1", "-e", "XARGO_HOME=/xargo",
                         "-e", "CARGO_HOME=/cargo", "-e", "CARGO_TARGET_DIR=/target",
                         "-e", "CROSS_RUNNER=" \o unwrap_or(config.runner, ""),
                         "-e", "USER=user">>)))

\* slip: the extra mounts are read-only
mount_readonly(docker, val, prefix) ==
    [docker |-> args(docker, <<"-v", display(val) \o ":" \o prefix \o display(val) \o ":ro">>),
     mount_path |-> val]

\* mount(docker, val, prefix, verbose): file::canonicalize and
\* canonicalize_mount_path leave a canonical path as it is
mount(docker, val, prefix) ==
    [docker |-> args(docker, <<"-v", display(val) \o ":" \o prefix \o display(val)>>),
     mount_path |-> val]

\* env::var(var), for a variable that names a directory
env_var(env, var) == IF var \in DOMAIN env THEN env[var] ELSE None

\* the two loops of docker_mount: env_volumes whose variable has a value,
\* then the path dependencies; `acc` is (docker, mount_volumes)
RECURSIVE mount_env_volumes(_, _, _)
mount_env_volumes(acc, volumes, env) ==
    IF volumes = <<>> THEN Value(acc)
    ELSE Try(validate_env_var(Head(volumes)),
             LAMBDA valid :
                 LET value == IF valid.value # None
                              THEN Some(PathBuf_from(valid.value[1]))
                              ELSE env_var(env, valid.key)
                 IN  IF value = None THEN mount_env_volumes(acc, Tail(volumes), env)
                     ELSE LET mounted == mount(acc.docker, value[1], "") IN
                          mount_env_volumes(
                              [docker |-> args(mounted.docker,
                                               <<"-e", valid.key \o "="
                                                           \o display(mounted.mount_path)>>),
                               mount_volumes |-> TRUE],
                              Tail(volumes), env))

RECURSIVE mount_path_dependencies(_, _)
mount_path_dependencies(acc, paths) ==
    IF paths = <<>> THEN acc
    ELSE mount_path_dependencies(
             [docker |-> mount(acc.docker, Head(paths), "").docker,
              mount_volumes |-> TRUE],
             Tail(paths))

\* docker_mount with mount_cb = mount(docker, val, "") and store_cb = no-op;
\* returns the command and mount_volumes
docker_mount(docker, metadata, config, cwd, env) ==
    LET volumes == mount_env_volumes(
                       [docker |-> docker,
                        mount_volumes |-> ~strip_prefix(cwd, metadata.workspace_root).ok],
                       config.env_volumes, env)
    IN  Try(volumes,
            LAMBDA acc : Value(mount_path_dependencies(acc, metadata.path_dependencies)))

\* docker_seccomp off Windows: the profile written under the current
\* directory
docker_seccomp(docker, target, cwd) ==
    IF target.needs_docker_seccomp
    THEN args(docker, <<"--security-opt",
                        "seccomp=" \o display(cwd \o <<"target", target.triple,
                                                       "seccomp.json">>)>>)
    ELSE docker

docker_user_id(docker, engine_type) ==
    IF engine_type = "Docker" THEN args(docker, <<"--user", "1000:1000">>)
    ELSE docker

\* for part in working_dir.iter() { mount_wd.push("/"); mount_wd.push(part) }
RECURSIVE mount_wd(_)
mount_wd(working_dir) ==
    IF working_dir = <<>> THEN ""
    ELSE mount_wd(SubSeq(working_dir, 1, Len(working_dir) - 1))
             \o "/" \o working_dir[Len(working_dir)]

docker_cwd(docker, metadata, dirs_, cwd, mount_volumes) ==
    IF mount_volumes
    THEN Value(args(docker, <<"-w", display(dirs_.mount_cwd)>>))
    ELSE IF dirs_.mount_cwd = metadata.workspace_root
    THEN Value(args(docker, <<"-w", "/project">>))
    ELSE LET stripped == strip_prefix(cwd, metadata.workspace_root) IN
         IF ~stripped.ok THEN stripped
         ELSE Value(args(docker, <<"-w", mount_wd(join(<<"project">>, stripped.val))>>))

\* slip: the flags of remote_run, both or none
interactive_all(docker, tty) ==
    IF tty.Stdin /\ tty.Stdout /\ tty.Stderr
    THEN args(docker, <<"-i", "-t">>)
    ELSE docker

\* if atty::is(Stream::Stdin) { docker.arg("-i");
\*     if atty::is(Stream::Stdout) && atty::is(Stream::Stderr) { docker.arg("-t"); } }
interactive(docker, tty) ==
    IF tty.Stdin
    THEN IF tty.Stdout /\ tty.Stderr THEN args(docker, <<"-i", "-t">>)
         ELSE args(docker, <<"-i">>)
    ELSE docker

\* cargo_cmd(uses_xargo) with its arguments
cargo_cmd(uses_xargo) == IF uses_xargo THEN "xargo" ELSE "cargo"

\* local_run up to run_and_get_status: the Directories and the command it
\* runs, or the error it returns before.  environ is what it reads off the
\* process: the container engine found, the inspection of its own
\* container, NIX_STORE, which streams are terminals.
local_run(target, argv, metadata, config, uses_xargo, sysroot, docker_in_docker, cwd, environ) ==
    LET created == Directories_create(metadata, cwd, sysroot, docker_in_docker, environ)
        engine == Engine_new(FALSE, environ.engine)
    IN  IF ~created.ok THEN created
        ELSE IF ~engine.ok THEN engine
        ELSE
        LET dirs_ == created.val
            d1 == args(docker_subcommand(engine.val, "run"), <<"--userns", "host">>)
        IN  Try(docker_envvars(d1, config), LAMBDA d2 :
            Try(docker_mount(d2, metadata, config, cwd, environ.variables), LAMBDA mounted :
        LET mount_volumes == mounted.mount_volumes
            d3 == args(mounted.docker, <<"--rm">>)
            d4 == docker_seccomp(d3, target, cwd)
            d5 == docker_user_id(d4, engine.val.kind)
            d6 == args(d5, <<"-v", display(dirs_.xargo) \o ":/xargo:Z",
                             "-v", display(dirs_.cargo) \o ":/cargo:Z",
                             "-v", "/cargo/bin">>)
            d7 == IF mount_volumes
                  THEN args(d6, <<"-v", display(dirs_.host_root) \o ":"
                                            \o display(dirs_.mount_root) \o ":Z">>)
                  ELSE args(d6, <<"-v", display(dirs_.host_root) \o ":/project:Z">>)
            d8 == args(d7, <<"-v", display(dirs_.sysroot) \o ":/rust:Z,ro",
                             "-v", display(dirs_.target) \o ":/target:Z">>)
            d9 == docker_cwd(d8, metadata, dirs_, cwd, mount_volumes)
        IN  IF ~d9.ok THEN d9
            ELSE
            LET d10 == IF dirs_.nix_store # None
                       THEN args(d9.val, <<"-v", display(dirs_.nix_store[1]) \o ":"
                                                     \o display(dirs_.nix_store[1]) \o ":Z">>)
                       ELSE d9.val
                d11 == interactive(d10, environ.tty)
                img == image(config.image, target.triple, environ.build)
            IN  IF ~img.ok THEN img
                ELSE Value([dirs |-> dirs_,
                            docker |-> args(d11, <<img.val, "sh", "-c",
                                                   "PATH=$PATH:/rust/bin "
                                                       \o cargo_cmd(uses_xargo)
                                                       \o " " \o argv>>)])))

\* cross started in a container that has /project/path, or /project, bound
\* from the host, or no bind mount, on overlay2 and on btrfs
SelfInspections ==
    {Value(<<[GraphDriver |-> Some([Name |-> Some(n),
                                    Data |-> Some([MergedDir |-> Some(<<Slash, "host">>)])]),
              Mounts |-> m]>>) :
        n \in {"overlay2", "btrfs"},
        m \in {None,
               Some(<<[Source |-> <<Slash, "host", Slash, "path">>,
                       Destination |-> <<Slash, "project">>]>>),
               Some(<<[Source |-> <<Slash, "project">>,
                       Destination |-> <<Slash, "project", Slash, "path">>]>>)}}

Cwds == WorkingDirectories \cup {<<"project", "path", "test">>}
EnvVolumes == {<<>>, <<<<"VOL">>>>, <<<<"VOL", Equals, Slash, "target">>>>}
PathDependencies == {<<>>, <<<<"path">>>>}
Targets == [triple : {"aarch64-unknown-linux-gnu"}, needs_docker_seccomp : BOOLEAN]
Ttys == [Stdin : BOOLEAN, Stdout : BOOLEAN, Stderr : BOOLEAN]
Release == [CARGO_PKG_VERSION |-> "0.2.1", commit_info |-> ""]

\* docker_in_docker is set when there is a container to inspect
InitLocalRun ==
    /\ Idle
    /\ eval \in
         {Call("local_run",
               [target |-> t, argv |-> "build",
                metadata |-> [workspace_root |-> Workspace.workspace_root,
                              target_directory |-> Workspace.target_directory,
                              path_dependencies |-> deps],
                config |-> [image |-> [x \in TargetTriples |-> Value(None)],
                            env_passthrough |-> <<>>, env_volumes |-> vols,
                            runner |-> None],
                uses_xargo |-> FALSE, sysroot |-> Sysroot,
                docker_in_docker |-> inspect.ok, cwd |-> cwd,
                environ |-> [engine |-> Value([kind |-> kind,
                                               path |-> <<"usr", "bin", "docker">>]),
                             inspect |-> inspect, NIX_STORE |-> nix,
                             variables |-> [v \in {"VOL"} |-> None],
                             tty |-> tty, build |-> Release]]) :
            t \in Targets, deps \in PathDependencies, vols \in EnvVolumes,
            cwd \in Cwds, kind \in {"Docker", "Podman"},
            inspect \in {Report("not in a container")} \cup SelfInspections,
            nix \in {None, Some(<<"nix", "store">>)}, tty \in Ttys}

local_run_call ==
    /\ eval.fn = "local_run" /\ ~eval.done
    /\ Return(local_run(eval.arg.target, eval.arg.argv, eval.arg.metadata,
                        eval.arg.config, eval.arg.uses_xargo, eval.arg.sysroot,
                        eval.arg.docker_in_docker, eval.arg.cwd, eval.arg.environ))

SpecLocalRun == InitLocalRun /\ [][local_run_call]_vars

\* the values of an option in the command local_run built
ValuesOf(option) ==
    LET a == eval.out.val.docker.args IN
    {a[i + 1] : i \in {j \in 1..(Len(a) - 1) : a[j] = option}}
Built == eval.fn = "local_run" /\ eval.done /\ eval.out.ok

\* the entries of env.volumes: the variable, and the directory it names
\* when it has one
ParsedEnvVolumes ==
    LET raw == eval.arg.config.env_volumes
        parsed(entry) == validate_env_var(entry).val
    IN  [i \in 1..Len(raw) |->
            [var |-> parsed(raw[i]).key,
             value |-> IF parsed(raw[i]).value # None
                       THEN Some(PathBuf_from(parsed(raw[i]).value[1]))
                       ELSE env_var(eval.arg.environ.variables, parsed(raw[i]).key)]]

\* docker_mount had something to mount besides the project: the current
\* directory is outside the workspace root, an env volume has a value, or
\* there is a path dependency
ExtraMounts ==
    \/ ~IsInside(eval.arg.cwd, eval.arg.metadata.workspace_root)
    \/ \E i \in 1..Len(ParsedEnvVolumes) : ParsedEnvVolumes[i].value # None
    \/ eval.arg.metadata.path_dependencies # <<>>

\* C28: the working directory of the container is the translated mount
\* path of the current directory if extra mounts were required; else
\* /project if the current directory equals the workspace root; else
\* /project/<rel>, <rel> being the current directory relative to the
\* workspace root, written with `/` separators.  For the workspace root
\* /ws and the current directory /ws/crates/a, without extra volumes, it
\* is /project/crates/a.
C28_WorkingDirectory ==
    Built
        => LET root == eval.arg.metadata.workspace_root
               cwd == eval.arg.cwd
               rel == SubSeq(cwd, Len(root) + 1, Len(cwd))
           IN  ValuesOf("-w") =
                   {IF ExtraMounts THEN display(eval.out.val.dirs.mount_cwd)
                    ELSE IF cwd = root THEN "/project"
                    ELSE display(<<"project">> \o rel)}

\* C29: the local run command always bind-mounts the build-cache homes at
\* /xargo and /cargo, the sysroot at /rust read-only (no other mount is
\* read-only), the output directory at /target, an anonymous volume at
\* /cargo/bin, and exactly one project mount: the host root at /project
\* when no extra mount was required (current directory inside the workspace
\* root, no env volume with a value, no path dependency), otherwise the
\* host root at its translated mount path, each extra path being mounted
\* on its own.
C29_LocalMounts ==
    Built
        => LET d == eval.out.val.dirs
               a == eval.out.val.docker.args
               vols == ParsedEnvVolumes
               deps == eval.arg.metadata.path_dependencies
               extras == {vols[i].value[1] :
                              i \in {j \in 1..Len(vols) : vols[j].value # None}}
                             \cup {deps[i] : i \in 1..Len(deps)}
               always == {display(d.xargo) \o ":/xargo:Z",
                          display(d.cargo) \o ":/cargo:Z",
                          "/cargo/bin",
                          display(d.sysroot) \o ":/rust:Z,ro",
                          display(d.target) \o ":/target:Z"}
               project == IF ExtraMounts
                          THEN display(d.host_root) \o ":" \o display(d.mount_root) \o ":Z"
                          ELSE display(d.host_root) \o ":/project:Z"
               nix == IF d.nix_store = <<>> THEN {}
                      ELSE {display(d.nix_store[1]) \o ":" \o display(d.nix_store[1]) \o ":Z"}
               expected == always \cup {project} \cup nix
                               \cup {display(p) \o ":" \o display(p) : p \in extras}
           IN  /\ ValuesOf("-v") = expected
               /\ Cardinality({j \in 1..Len(a) : a[j] = "-v"}) = Cardinality(expected)

\* a build from inside the workspace with an env volume and a path
\* dependency, on the host
C29_Witness ==
    /\ Built /\ ~eval.arg.docker_in_docker
    /\ eval.arg.cwd = <<"project", "path">>
    /\ {"/target:/target", "/path:/path", "/project:/project:Z",
        "/home/.rustup/stable:/rust:Z,ro"} \subseteq ValuesOf("-v")
    /\ "VOL=/target" \in ValuesOf("-e")

\* C30 as stated: in local mode `-i` and `-t` are added to the run command
\* only if stdin, stdout and stderr are all terminals; if any of the three
\* is not a terminal, neither flag is added.
C30_InteractiveOnlyIfAllTty ==
    Built
        => LET a == eval.out.val.docker.args
               tty == eval.arg.environ.tty
           IN  (\E j \in 1..Len(a) : a[j] \in {"-i", "-t"})
                   => (tty.Stdin /\ tty.Stdout /\ tty.Stderr)

\* C30, amended: in local mode `-i` is added to the run command exactly
\* when stdin is a terminal, and `-t` exactly when stdin, stdout and
\* stderr are all terminals.
C30_InteractiveFlags ==
    Built
        => LET a == eval.out.val.docker.args
               tty == eval.arg.environ.tty
           IN  /\ (\E j \in 1..Len(a) : a[j] = "-i") <=> tty.Stdin
               /\ (\E j \in 1..Len(a) : a[j] = "-t")
                      <=> (tty.Stdin /\ tty.Stdout /\ tty.Stderr)

\* a terminal on stdin with stdout piped away
C30_Witness ==
    /\ Built
    /\ eval.arg.environ.tty = [Stdin |-> TRUE, Stdout |-> FALSE, Stderr |-> TRUE]
    /\ \E j \in 1..Len(eval.out.val.docker.args) : eval.out.val.docker.args[j] = "-i"
    /\ \A j \in 1..Len(eval.out.val.docker.args) : eval.out.val.docker.args[j] # "-t"

\* ------------------------------------------- commands/containers.rs: volumes
\* `cross-util create-crate-volume` and `cross-util remove-crate-volume`
\* against the engine.  eval names the operation and keeps the engine as
\* it was when the operation was invoked.

\* let volume = format!("{container}-keep");
CrateVolume == KeepId(Container)

\* copy_volume_xargo(..)?; copy_volume_cargo(..)?; copy_volume_rust(..)?;
CrateVolumeCopies == <<"copy_volume_xargo", "copy_volume_cargo", "copy_volume_rust">>

InitCrateVolume ==
    /\ world \in {w \in [cstate : EngineStates,
                         cvol : {"", Container, CrateVolume},
                         vols : SUBSET {Container, CrateVolume}] : WorldOK(w)}
    /\ is_remote = TRUE
    /\ pc \in {"create_crate_volume", "remove_crate_volume"}
    /\ dirs = [target |-> <<"ws", "target">>, host_root |-> HostRoot]
    /\ volume = NoVolume
    /\ state = "unset"
    /\ guards = <<>>
    /\ staged = 0
    /\ status = Unset
    /\ ret = Unset
    /\ result = Unset
    /\ trace = <<>>
    /\ peer = NoPeer
    /\ eval = Call(pc, world)

\* the operation returns r to its caller
Finish(r) ==
    /\ result' = r
    /\ pc' = "done"

\* let (target, metadata, dirs) = get_package_info(..)?;
\* let container = remote_identifier(&target, &metadata, &dirs)?;
crate_volume_prepare ==
    /\ pc \in {"create_crate_volume", "remove_crate_volume"}
    /\ \E ok \in BOOLEAN :
         IF ok
         THEN /\ pc' = IF pc = "create_crate_volume" THEN "create_exists" ELSE "remove_exists"
              /\ result' = result
         ELSE Finish(Err("prepare"))
    /\ UNCHANGED <<world, is_remote, dirs, volume, state, guards, staged,
                   status, ret, trace, peer, eval>>

\* slip: the volume is created without looking for it first
create_crate_volume_unchecked ==
    /\ pc = "create_exists"
    /\ pc' = "create_volume"
    /\ volume' = Keep(CrateVolume)
    /\ UNCHANGED <<world, is_remote, dirs, state, guards, staged, status,
                   ret, result, trace, peer, eval>>

\* if volume_exists(engine, &volume, verbose)? {
\*     eyre::bail!("error: volume {volume} already exists."); }
create_crate_volume_exists ==
    /\ pc = "create_exists"
    /\ \E q \in run_and_get_status({IF CrateVolume \in world.vols THEN 0 ELSE 1}) :
         /\ trace' = Append(trace, Entry("volume inspect", CrateVolume, q, "create", <<>>))
         /\ IF ~q.ok THEN Finish(q)
            ELSE IF Success(q) THEN Finish(Err("volume already exists"))
            ELSE pc' = "create_volume" /\ result' = result
    /\ volume' = Keep(CrateVolume)
    /\ UNCHANGED <<world, is_remote, dirs, state, guards, staged, status,
                   ret, peer, eval>>

\* docker_command(engine).args(&["volume", "create", &volume])
\*     .run_and_get_status(verbose)?;
create_crate_volume_create ==
    /\ pc = "create_volume"
    /\ \E r \in run_and_get_status(EngineCodes(TRUE)) :
         /\ trace' = Append(trace, Entry("volume create", volume.id, r, "create", <<>>))
         /\ world' = EngineVolumeCreate(world, volume.id, r)
         /\ IF r.ok THEN pc' = "create_state" /\ result' = result ELSE Finish(r)
    /\ UNCHANGED <<is_remote, dirs, volume, state, guards, staged, status,
                   ret, peer, eval>>

\* let state = container_state(engine, &container, verbose)?;
create_crate_volume_state ==
    /\ pc = "create_state"
    /\ \E r \in run_and_get_status({0}) :
         /\ trace' = Append(trace, Entry("ps", Container, r, "create", <<>>))
         /\ IF r.ok /\ ContainerState_new(world.cstate).ok
            THEN /\ state' = ContainerState_new(world.cstate).state
                 /\ pc' = "create_stop"
                 /\ result' = result
            ELSE /\ Finish(IF r.ok THEN Err("unknown container state") ELSE r)
                 /\ state' = state
    /\ UNCHANGED <<world, is_remote, dirs, volume, guards, staged, status,
                   ret, peer, eval>>

\* if !state.is_stopped() { container_stop(engine, &container, verbose)?; }
create_crate_volume_stop ==
    /\ pc = "create_stop"
    /\ IF ~is_stopped(state)
       THEN \E r \in run_and_get_status(EngineCodes(CanStop(world))) :
              /\ trace' = Append(trace, Entry("stop", Container, r, "create", <<>>))
              /\ world' = EngineStop(world, r)
              /\ IF r.ok THEN pc' = "create_rm" /\ result' = result ELSE Finish(r)
       ELSE /\ pc' = "create_rm"
            /\ UNCHANGED <<world, trace, result>>
    /\ UNCHANGED <<is_remote, dirs, volume, state, guards, staged, status,
                   ret, peer, eval>>

\* if state.exists() { container_rm(engine, &container, verbose)?; }
create_crate_volume_rm ==
    /\ pc = "create_rm"
    /\ IF exists(state)
       THEN \E r \in run_and_get_status(EngineCodes(CanRm(world))) :
              /\ trace' = Append(trace, Entry("rm", Container, r, "create", <<>>))
              /\ world' = EngineRm(world, r)
              /\ IF r.ok THEN pc' = "create_run" /\ result' = result ELSE Finish(r)
       ELSE /\ pc' = "create_run"
            /\ UNCHANGED <<world, trace, result>>
    /\ UNCHANGED <<is_remote, dirs, volume, state, guards, staged, status,
                   ret, peer, eval>>

\* docker.args(&["run", "--name", &container, "-v", "{volume}:/cross", "-d"])
\*     .. .args(&["sh", "-c", "sleep infinity"]); docker.run_and_get_status(verbose)?;
create_crate_volume_run ==
    /\ pc = "create_run"
    /\ \E r \in run_and_get_status(EngineCodes(CanRun(world))) :
         /\ trace' = Append(trace, Entry("run", Container, r, "start", <<>>))
         /\ \E left \in RunLeftovers(world, r) :
                world' = EngineRun(world, volume.id, r, left)
         /\ IF r.ok THEN pc' = "create_copy" /\ result' = result ELSE Finish(r)
    /\ UNCHANGED <<is_remote, dirs, volume, state, guards, staged, status,
                   ret, peer, eval>>

\* copy_volume_xargo(..)?; copy_volume_cargo(..)?; copy_volume_rust(..)?;
create_crate_volume_copy ==
    /\ pc = "create_copy"
    /\ IF staged < Len(CrateVolumeCopies)
       THEN \E r \in run_and_get_status(EngineCodes(CanExec(world))) :
              /\ trace' = Append(trace, Entry(CrateVolumeCopies[staged + 1], Container, r, "stage", <<>>))
              /\ staged' = staged + 1
              /\ IF r.ok THEN pc' = "create_copy" /\ result' = result ELSE Finish(r)
       ELSE /\ pc' = "create_container_stop"
            /\ UNCHANGED <<trace, staged, result>>
    /\ UNCHANGED <<world, is_remote, dirs, volume, state, guards, status,
                   ret, peer, eval>>

\* container_stop(engine, &container, verbose)?;
create_crate_volume_container_stop ==
    /\ pc = "create_container_stop"
    /\ \E r \in run_and_get_status(EngineCodes(CanStop(world))) :
         /\ trace' = Append(trace, Entry("stop", Container, r, "release", <<>>))
         /\ world' = EngineStop(world, r)
         /\ IF r.ok THEN pc' = "create_container_rm" /\ result' = result ELSE Finish(r)
    /\ UNCHANGED <<is_remote, dirs, volume, state, guards, staged, status,
                   ret, peer, eval>>

\* container_rm(engine, &container, verbose)?;  Ok(())
create_crate_volume_container_rm ==
    /\ pc = "create_container_rm"
    /\ \E r \in run_and_get_status(EngineCodes(CanRm(world))) :
         /\ trace' = Append(trace, Entry("rm", Container, r, "release", <<>>))
         /\ world' = EngineRm(world, r)
         /\ Finish(IF r.ok THEN Ok(0) ELSE r)
    /\ UNCHANGED <<is_remote, dirs, volume, state, guards, staged, status,
                   ret, peer, eval>>

\* if !volume_exists(engine, &volume, verbose)? {
\*     eyre::bail!("error: volume {volume} does not exist."); }
remove_crate_volume_exists ==
    /\ pc = "remove_exists"
    /\ \E q \in run_and_get_status({IF CrateVolume \in world.vols THEN 0 ELSE 1}) :
         /\ trace' = Append(trace, Entry("volume inspect", CrateVolume, q, "remove", <<>>))
         /\ IF ~q.ok THEN Finish(q)
            ELSE IF ~Success(q) THEN Finish(Err("volume does not exist"))
            ELSE pc' = "remove_volume" /\ result' = result
    /\ volume' = Keep(CrateVolume)
    /\ UNCHANGED <<world, is_remote, dirs, state, guards, staged, status,
                   ret, peer, eval>>

\* volume_rm(engine, &volume, verbose)?;  Ok(())
remove_crate_volume_rm ==
    /\ pc = "remove_volume"
    /\ \E r \in run_and_get_status(EngineCodes(CanVolumeRm(world, volume.id))) :
         /\ trace' = Append(trace, Entry("volume rm", volume.id, r, "remove", <<>>))
         /\ world' = EngineVolumeRm(world, volume.id, r)
         /\ Finish(IF r.ok THEN Ok(0) ELSE r)
    /\ UNCHANGED <<is_remote, dirs, volume, state, guards, staged, status,
                   ret, peer, eval>>

NextCrateVolume ==
    \/ crate_volume_prepare
    \/ create_crate_volume_exists
    \/ create_crate_volume_create
    \/ create_crate_volume_state
    \/ create_crate_volume_stop
    \/ create_crate_volume_rm
    \/ create_crate_volume_run
    \/ create_crate_volume_copy
    \/ create_crate_volume_container_stop
    \/ create_crate_volume_container_rm
    \/ remove_crate_volume_exists
    \/ remove_crate_volume_rm

SpecCrateVolume == InitCrateVolume /\ [][NextCrateVolume]_vars

\* the operation that was invoked, and its return
Created == eval.fn = "create_crate_volume" /\ pc = "done"
Removed == eval.fn = "remove_crate_volume" /\ pc = "done"

\* the engine commands `cmd` the operation issued, by the volume or
\* container they name
IssuedFor(cmd) == {trace[i].arg : i \in {j \in 1..Len(trace) : trace[j].cmd = cmd}}
CountOf(cmd) == Cardinality({j \in 1..Len(trace) : trace[j].cmd = cmd})

\* the answer of volume_exists, when the query could be run
ExistsAnswered ==
    /\ Len(trace) >= 1
    /\ trace[1].cmd = "volume inspect"
    /\ trace[1].res.ok

\* C31: create-crate-volume returns an error without issuing `volume
\* create` or `run` when the keep volume already exists, and
\* remove-crate-volume returns an error without issuing `volume rm` when it
\* does not exist; when volume_exists answered the opposite, create issues
\* `volume create` and remove issues `volume rm`, once, for that volume only.
C31_ExplicitVolumeChecks ==
    /\ Created /\ CrateVolume \in eval.arg.vols
         => /\ ~result.ok
            /\ IssuedFor("volume create") = {}
            /\ IssuedFor("run") = {}
            /\ world = eval.arg
    /\ Removed /\ CrateVolume \notin eval.arg.vols
         => /\ ~result.ok
            /\ IssuedFor("volume rm") = {}
            /\ world = eval.arg
    /\ Created /\ ExistsAnswered /\ CrateVolume \notin eval.arg.vols
         => IssuedFor("volume create") = {CrateVolume} /\ CountOf("volume create") = 1
    /\ Removed /\ ExistsAnswered /\ CrateVolume \in eval.arg.vols
         => IssuedFor("volume rm") = {CrateVolume} /\ CountOf("volume rm") = 1

C31_Witness ==
    /\ Created
    /\ ExistsAnswered
    /\ CrateVolume \in eval.arg.vols
    /\ result = Err("volume already exists")

\* C38: when create_crate_volume returns after the placeholder container
\* was started, no container of that name is left: on success it has been
\* stopped and removed and the keep volume exists, and after a failing
\* staging copy or container command it has been stopped and removed too.
C38_NoPlaceholderLeft ==
    Created /\ Started
      => /\ world.cstate = ""
         /\ result.ok => CrateVolume \in world.vols

\* --------------------------------------------- errors.rs: the interrupt hook
\* A process with the termination hook installed.  world holds the
\* TERMINATED flag, the registered temporary files and the exit status of
\* the process; peer holds the handler invocations, one per delivered
\* interrupt; trace logs the calls of temp::clean.  A delivery may come
\* while the handler of an earlier one has not yet ended the process.

\* interrupts delivered to one process
MaxInterrupts == 2

TempFiles == {"a.tmp", "b.tmp"}

\* temp::has_tempfiles
has_tempfiles(files) == files # {}

\* temp::clean: every registered temporary file is removed
clean(files) == {}

\* pub static mut TERMINATED: AtomicBool = AtomicBool::new(false);
InitTermination ==
    /\ world \in [TERMINATED : {FALSE}, tempfiles : SUBSET TempFiles, exit : {None}]
    /\ is_remote = FALSE
    /\ pc = "main"
    /\ dirs = [target |-> <<"ws", "target">>, host_root |-> HostRoot]
    /\ volume = NoVolume
    /\ state = "unset"
    /\ guards = <<>>
    /\ staged = 0
    /\ status = Unset
    /\ ret = Unset
    /\ result = Unset
    /\ trace = <<>>
    /\ peer = <<>>
    /\ eval = NoCall

Alive == world.exit = None

\* the main thread registers a temporary file
tempfile_create ==
    /\ Alive
    /\ \E f \in TempFiles \ world.tempfiles :
         world' = [world EXCEPT !.tempfiles = @ \cup {f}]
    /\ UNCHANGED <<is_remote, pc, dirs, volume, state, guards, staged, status,
                   ret, result, trace, peer, eval>>

\* the main thread finalizes a temporary file: it is no longer registered
tempfile_finalize ==
    /\ Alive
    /\ \E f \in world.tempfiles :
         world' = [world EXCEPT !.tempfiles = @ \ {f}]
    /\ UNCHANGED <<is_remote, pc, dirs, volume, state, guards, staged, status,
                   ret, result, trace, peer, eval>>

\* the main thread returns and the process ends with its status
main_exit ==
    /\ Alive
    /\ pc = "main"
    /\ \E code \in 0..MaxExit :
         world' = [world EXCEPT !.exit = Some(code)]
    /\ pc' = "done"
    /\ UNCHANGED <<is_remote, dirs, volume, state, guards, staged, status,
                   ret, result, trace, peer, eval>>

\* ctrlc::set_handler(|| unsafe { termination_handler() }): an interrupt
\* is delivered and the handler is entered
interrupt ==
    /\ Alive
    /\ Len(peer) < MaxInterrupts
    /\ peer' = Append(peer, [pc |-> "swap", flipped |-> FALSE, had |-> FALSE])
    /\ UNCHANGED <<world, is_remote, pc, dirs, volume, state, guards, staged,
                   status, ret, result, trace, eval>>

\* slip: the flag is tested and set in two steps, the store coming last
termination_handler_load ==
    /\ Alive
    /\ \E i \in 1..Len(peer) :
         /\ peer[i].pc = "swap"
         /\ LET was == world.TERMINATED IN
            /\ peer' = [peer EXCEPT ![i] =
                          [pc |-> IF ~was /\ has_tempfiles(world.tempfiles)
                                  THEN "clean" ELSE "exit",
                           flipped |-> ~was,
                           had |-> ~was /\ has_tempfiles(world.tempfiles)]]
            /\ world' = world
    /\ UNCHANGED <<is_remote, pc, dirs, volume, state, guards, staged, status,
                   ret, result, trace, eval>>

\* if !TERMINATED.swap(true, Ordering::SeqCst) && temp::has_tempfiles() {
termination_handler_swap ==
    /\ Alive
    /\ \E i \in 1..Len(peer) :
         /\ peer[i].pc = "swap"
         /\ LET was == world.TERMINATED IN
            /\ peer' = [peer EXCEPT ![i] =
                          [pc |-> IF ~was /\ has_tempfiles(world.tempfiles)
                                  THEN "clean" ELSE "exit",
                           flipped |-> ~was,
                           had |-> ~was /\ has_tempfiles(world.tempfiles)]]
            /\ world' = [world EXCEPT !.TERMINATED = TRUE]
    /\ UNCHANGED <<is_remote, pc, dirs, volume, state, guards, staged, status,
                   ret, result, trace, eval>>

\*     temp::clean(); }
termination_handler_clean ==
    /\ Alive
    /\ \E i \in 1..Len(peer) :
         /\ peer[i].pc = "clean"
         /\ peer' = [peer EXCEPT ![i].pc = "exit"]
         /\ trace' = Append(trace, [cmd |-> "temp::clean", by |-> i])
         /\ world' = [world EXCEPT !.tempfiles = clean(@)]
    /\ UNCHANGED <<is_remote, pc, dirs, volume, state, guards, staged, status,
                   ret, result, eval>>

\* std::process::exit(130);
termination_handler_exit ==
    /\ Alive
    /\ \E i \in 1..Len(peer) :
         /\ peer[i].pc = "exit"
         /\ peer' = [peer EXCEPT ![i].pc = "exited"]
         /\ world' = [world EXCEPT !.exit = Some(Terminated)]
    /\ UNCHANGED <<is_remote, pc, dirs, volume, state, guards, staged, status,
                   ret, result, trace, eval>>

NextTermination ==
    \/ tempfile_create
    \/ tempfile_finalize
    \/ main_exit
    \/ interrupt
    \/ termination_handler_swap
    \/ termination_handler_clean
    \/ termination_handler_exit

SpecTermination == InitTermination /\ [][NextTermination]_vars

\* C32: a handler invocation that comes to its end has ended the process
\* with exit status 130, and the handler has no other end; temp::clean is
\* called at most once in a process, by the invocation whose swap changed
\* TERMINATED from false to true and only when it found temporary files
\* registered; TERMINATED, once true, stays true.
C32_TerminationHandler ==
    /\ [](\A i \in 1..Len(peer) :
            /\ peer[i].pc \in {"swap", "clean", "exit", "exited"}
            /\ peer[i].pc = "exited" => world.exit = Some(Terminated))
    /\ [](Len(trace) <= 1)
    /\ [](\A k \in 1..Len(trace) :
            peer[trace[k].by].flipped /\ peer[trace[k].by].had)
    /\ [](Cardinality({i \in 1..Len(peer) : peer[i].flipped}) <= 1)
    /\ [][world.TERMINATED => world'.TERMINATED]_vars

\* a second interrupt was delivered before the first handler had ended the
\* process; the first had cleaned the temporary files, the second did not
C32_Witness ==
    /\ Len(peer) = 2
    /\ peer[1].flipped /\ ~peer[2].flipped
    /\ Len(trace) = 1 /\ trace[1].by = 1
    /\ peer[2].pc = "exited"
    /\ world.exit = Some(Terminated)
    /\ world.TERMINATED

\* --------------------------------- commands/containers.rs: bulk removal
\* `cross-util remove-volumes` and `cross-util remove-containers`.  world
\* holds the state of every container whose name starts with cross- ("" for
\* one that does not exist) and the set of such volumes; trace holds the
\* commands that were handed to the engine, staged the number of commands
\* printed instead.

\* the names of the filter name=^cross-, in sorted order
CrossContainers == <<"cross-a", "cross-b">>
CrossVolumes == <<"cross-a", "cross-b-keep">>

Range(s) == {s[i] : i \in 1..Len(s)}

\* CommandExt::run: Ok(()) when the process exited 0, an error otherwise
CommandExt_run(codes) ==
    {Ok(c) : c \in codes \cap {0}}
    \cup {Err("exited non-zero") : c \in codes \ {0}}
    \cup {Err("could not execute")}

\* volume list --format "{{.Name}}" --filter name=^cross-, lines sorted
ListVolumesQuery ==
    args(Command_new("docker"), <<"volume", "list", "--format", "{{.Name}}",
                                  "--filter", "name=^cross-">>)

\* ps -a --format "{{.Names}}: {{.State}}" --filter name=^cross-, lines sorted
ListContainersQuery ==
    args(Command_new("docker"), <<"ps", "-a", "--format", "{{.Names}}: {{.State}}",
                                  "--filter", "name=^cross-">>)

\* the lines the engine answers the two queries with
get_cross_volumes(w) == SelectSeq(CrossVolumes, LAMBDA v : v \in w.vols)
get_cross_containers(w) ==
    LET present == SelectSeq(CrossContainers, LAMBDA c : w.containers[c] # "") IN
    [i \in 1..Len(present) |-> <<present[i], w.containers[present[i]]>>]

\* let mut command = Command::new(engine); command.args(&["volume", "rm"]);
\* if force { command.arg("--force"); }  command.args(&volumes);
remove_volumes_command(force, volumes) ==
    LET command == args(Command_new("docker"), <<"volume", "rm">>) IN
    args(IF force THEN arg(command, "--force") ELSE command, volumes)

\* the containers of the listing that are running, and those stopped
Names(lines, keep(_)) ==
    LET kept == SelectSeq(lines, LAMBDA l : keep(ContainerState_new(l[2]).state)) IN
    [i \in 1..Len(kept) |-> kept[i][1]]

\* the `stop` and `rm` commands of remove_containers
remove_containers_commands(force, lines) ==
    LET running == Names(lines, LAMBDA s : ~is_stopped(s))
        stopped == Names(lines, is_stopped)
        stop == args(arg(Command_new("docker"), "stop"), running)
        rm0 == arg(Command_new("docker"), "rm")
        rm == args(args(IF force THEN arg(rm0, "--force") ELSE rm0, running), stopped)
    IN (IF running # <<>> THEN <<stop>> ELSE <<>>)
       \o (IF ~(stopped = <<>> /\ running = <<>>) THEN <<rm>> ELSE <<>>)

\* what the engine does with a command that changes its state: every
\* name, or, exiting non-zero, only some of them
Operands(command) ==
    Range(command.args) \cap (Range(CrossContainers) \cup Range(CrossVolumes))

Effect(w, command, names) ==
    CASE command.args[1] = "volume" -> [w EXCEPT !.vols = @ \ names]
      [] command.args[1] = "stop" ->
            [w EXCEPT !.containers =
                [c \in DOMAIN @ |-> IF c \in names /\ @[c] # "" THEN "exited" ELSE @[c]]]
      [] command.args[1] = "rm" ->
            [w EXCEPT !.containers =
                [c \in DOMAIN @ |-> IF c \in names THEN "" ELSE @[c]]]

Possible(w, command) ==
    CASE command.args[1] = "volume" -> Operands(command) # {} /\ Operands(command) \subseteq w.vols
      [] command.args[1] = "stop" ->
            \A c \in Operands(command) : w.containers[c] # ""
      [] command.args[1] = "rm" ->
            \A c \in Operands(command) :
               w.containers[c] = "exited" \/ ("--force" \in Range(command.args) /\ w.containers[c] # "")

\* the outcomes of running one command: the Result and the engine after it
Outcomes(w, command) ==
    {[res |-> r, world |-> Effect(w, command, Operands(command))] :
        r \in {x \in CommandExt_run(EngineCodes(Possible(w, command))) : x.ok}}
    \cup {[res |-> r, world |-> Effect(w, command, names)] :
             r \in {x \in CommandExt_run(EngineCodes(Possible(w, command))) : ~x.ok},
             names \in SUBSET Operands(command) \ {Operands(command)}}

InitBulkRemove ==
    /\ Idle
    /\ eval \in {Call(fn, [force |-> f, execute |-> e,
                           world |-> [containers |-> cs, vols |-> vs]]) :
                    fn \in {"remove_volumes", "remove_containers"},
                    f \in BOOLEAN, e \in BOOLEAN,
                    cs \in [Range(CrossContainers) -> {"", "running", "exited", "removing"}],
                    vs \in SUBSET Range(CrossVolumes)}

\* the operation ends: the engine, the commands run, those printed, the value
BulkReturn(w, ran, printed, r) ==
    /\ eval' = [eval EXCEPT !.out = r, !.done = TRUE]
    /\ world' = w
    /\ trace' = ran
    /\ staged' = printed
    /\ UNCHANGED <<is_remote, pc, dirs, volume, state, guards, status, ret,
                   result, peer>>

\* slip: the command is run whether or not --execute was given
remove_volumes_always ==
    /\ eval.fn = "remove_volumes" /\ ~eval.done
    /\ LET w == eval.arg.world
           list == ListVolumesQuery
           command == remove_volumes_command(eval.arg.force, get_cross_volumes(w))
       IN \E q \in CommandExt_run({0}) :
            IF ~q.ok THEN BulkReturn(w, <<list>>, <<>>, q)
            ELSE \E o \in Outcomes(w, command) :
                   BulkReturn(o.world, <<list, command>>, <<>>, o.res)

\* remove_volumes
remove_volumes ==
    /\ eval.fn = "remove_volumes" /\ ~eval.done
    /\ LET w == eval.arg.world
           list == ListVolumesQuery
           command == remove_volumes_command(eval.arg.force, get_cross_volumes(w))
       IN \E q \in CommandExt_run({0}) :
            IF ~q.ok THEN BulkReturn(w, <<list>>, <<>>, q)
            ELSE IF eval.arg.execute
            THEN \E o \in Outcomes(w, command) :
                   BulkReturn(o.world, <<list, command>>, <<>>, o.res)
            ELSE BulkReturn(w, <<list>>, <<command>>, Ok(0))

\* for mut command in commands { command.run(verbose)?; }
RECURSIVE RunAll(_, _, _)
RunAll(w, commands, ran) ==
    IF commands = <<>> THEN {[res |-> Ok(0), world |-> w, ran |-> ran]}
    ELSE UNION {IF o.res.ok THEN RunAll(o.world, Tail(commands), Append(ran, Head(commands)))
                ELSE {[res |-> o.res, world |-> o.world, ran |-> Append(ran, Head(commands))]} :
                   o \in Outcomes(w, Head(commands))}

\* remove_containers
remove_containers ==
    /\ eval.fn = "remove_containers" /\ ~eval.done
    /\ LET w == eval.arg.world
           list == ListContainersQuery
           lines == get_cross_containers(w)
           commands == remove_containers_commands(eval.arg.force, lines)
       IN \E q \in CommandExt_run({0}) :
            IF ~q.ok THEN BulkReturn(w, <<list>>, <<>>, q)
            ELSE IF \E i \in 1..Len(lines) : ~ContainerState_new(lines[i][2]).ok
            THEN BulkReturn(w, <<list>>, <<>>, Err("unknown container state"))
            ELSE IF eval.arg.execute
            THEN \E o \in RunAll(w, commands, <<list>>) :
                   BulkReturn(o.world, o.ran, <<>>, o.res)
            ELSE BulkReturn(w, <<list>>, commands, Ok(0))

NextBulkRemove == remove_volumes \/ remove_containers

SpecBulkRemove == InitBulkRemove /\ [][NextBulkRemove]_vars

\* C33: without --execute, remove_volumes and remove_containers hand only
\* their listing query to the engine: no `stop`, `rm` or `volume rm` is run,
\* the commands are printed instead, and the containers and volumes of the
\* engine are as they were.
C33_DryRunByDefault ==
    (eval.done /\ ~eval.arg.execute)
      => /\ Len(trace) = 1
         /\ trace[1] = IF eval.fn = "remove_volumes"
                       THEN ListVolumesQuery ELSE ListContainersQuery
         /\ \A i \in 1..Len(trace) :
               trace[i].args[1] \notin {"stop", "rm"}
               /\ SubSeq(trace[i].args, 1, 2) # <<"volume", "rm">>
         /\ world = eval.arg.world
         /\ eval.out.ok =>
              staged = IF eval.fn = "remove_volumes"
                       THEN <<remove_volumes_command(eval.arg.force, get_cross_volumes(world))>>
                       ELSE remove_containers_commands(eval.arg.force, get_cross_containers(world))

\* a dry run of remove_containers with one running and one exited
\* container printed a `stop` and a `rm` and left both containers
C33_Witness ==
    /\ eval.fn = "remove_containers" /\ eval.done /\ ~eval.arg.execute
    /\ eval.out = Ok(0)
    /\ Len(staged) = 2
    /\ staged[1].args = <<"stop", "cross-a">>
    /\ staged[2].args = <<"rm", "cross-a", "cross-b">>
    /\ world.containers = [c \in Range(CrossContainers) |->
                              IF c = "cross-a" THEN "running" ELSE "exited"]

\* the path find_mount_path gives for `path` with the mount table that
\* Directories::create read
Translated(path) ==
    find_mount_path(IF eval.arg.docker_in_docker
                    THEN MountFinder_new(eval.out.mounts.val)
                    ELSE MountFinder_default, path)

Created_dirs == eval.fn = "Directories::create" /\ eval.done /\ eval.out.dirs.ok

\* C34: Directories::create sets host_root to the translated workspace
\* root when the current directory is the workspace root or inside it, and
\* to the translated current directory when the current directory is
\* outside the workspace.
C34_HostRoot ==
    Created_dirs
      => eval.out.dirs.val.host_root =
            IF IsInside(eval.arg.cwd, eval.arg.metadata.workspace_root)
            THEN Translated(eval.arg.metadata.workspace_root)
            ELSE Translated(eval.arg.cwd)

\* the bind mounts of the command local_run built, as (source,
\* destination) paths, and the paths its `-w` value names
BindMounts ==
    LET d == eval.out.val.dirs
        vols == ParsedEnvVolumes
        deps == eval.arg.metadata.path_dependencies
        extras == {vols[i].value[1] : i \in {j \in 1..Len(vols) : vols[j].value # None}}
                      \cup {deps[i] : i \in 1..Len(deps)}
        Z(src, dst, opts) == display(src) \o ":" \o display(dst) \o opts
    IN  {m \in {<<d.xargo, <<"xargo">>, ":Z">>, <<d.cargo, <<"cargo">>, ":Z">>,
                <<d.host_root, d.mount_root, ":Z">>,
                <<d.host_root, <<"project">>, ":Z">>,
                <<d.sysroot, <<"rust">>, ":Z,ro">>,
                <<d.target, <<"target">>, ":Z">>}
               \cup {<<p, p, "">> : p \in extras} :
            Z(m[1], m[2], m[3]) \in ValuesOf("-v")}

WorkingDirs ==
    LET d == eval.out.val.dirs
        cwd == eval.arg.cwd
    IN  {p \in {d.mount_cwd, cwd, <<"project">>}
                  \cup {<<"project">> \o SubSeq(cwd, k, Len(cwd)) : k \in 1..(Len(cwd) + 1)} :
            display(p) \in ValuesOf("-w")}

\* C35: in local mode, wherever the current directory is with respect to
\* the workspace root (the root itself, inside it, above it, elsewhere),
\* the working directory given with `-w` lies inside the destination of a
\* bind mount of the same run command.
C35_WorkingDirectoryMounted ==
    Built
      => /\ WorkingDirs # {}
         /\ \A p \in WorkingDirs : \E m \in BindMounts : IsInside(p, m[2])

\* ------------------------------------------ remote_run: 4. what is staged
\* The staging calls of remote_run in full: which directories are copied
\* into the container, which are only created there, and which paths are
\* linked by the symlink script afterwards.

\* let mount_prefix = "/cross";
mount_prefix == <<"cross">>

Staged(op, src, dst) == [op |-> op, src |-> src, dst |-> dst]

\* (psrc, pdst) of the first entry of `copied` that src starts with
RECURSIVE FindCopied(_, _)
FindCopied(copied, src) ==
    IF copied = <<>> THEN None
    ELSE IF IsInside(src, Head(copied)[1]) THEN Some(Head(copied))
    ELSE FindCopied(Tail(copied), src)

\* for (src, dst) in volumes.iter() { .. }
RECURSIVE stage_volumes(_, _)
stage_volumes(copied, volumes) ==
    IF volumes = <<>> THEN <<>>
    ELSE LET src == Head(volumes)[1]
             dst == Head(volumes)[2]
             found == FindCopied(copied, src)
             mount_dst == join(mount_prefix, dst)
         IN  (IF found # None
              THEN <<Staged("ln -s",
                            join(found[1][2], strip_prefix(src, found[1][1]).val), dst)>>
              ELSE (IF dst # <<>>
                    THEN <<Staged("create_volume_dir", <<>>, Parent(mount_dst))>>
                    ELSE <<>>)
                   \o <<Staged("copy", src, mount_dst)>>)
             \o stage_volumes(copied, Tail(volumes))

\* copy_volume_xargo(..)?; copy_volume_cargo(..)?; copy_volume_rust(..)?;
stage_toolchain(dirs_) ==
    <<Staged("copy_volume_xargo", dirs_.xargo, join(mount_prefix, <<"xargo">>)),
      Staged("copy_volume_cargo", dirs_.cargo, join(mount_prefix, <<"cargo">>)),
      Staged("copy_volume_rust", dirs_.sysroot, join(mount_prefix, <<"rust">>))>>

\* from `let mount_root = if mount_volumes` to the end of the loop over
\* `volumes`
stage_project(dirs_, mount_volumes, volumes, copy_cache) ==
    LET mount_root == IF mount_volumes THEN join(mount_prefix, dirs_.mount_root)
                      ELSE join(mount_prefix, <<"project">>)
        root == (IF mount_volumes /\ dirs_.mount_root # <<>>
                 THEN <<Staged("create_volume_dir", <<>>, Parent(mount_root))>>
                 ELSE <<>>)
                \o <<Staged("copy", dirs_.host_root, mount_root)>>
        inside == strip_prefix(dirs_.target, dirs_.host_root)
        target_dir == IF inside.ok THEN join(mount_root, inside.val)
                      ELSE join(mount_prefix, <<"target">>)
        target == IF inside.ok THEN <<Staged("ln -s", target_dir, <<"target">>)>>
                  ELSE IF copy_cache THEN <<Staged("copy", dirs_.target, target_dir)>>
                  ELSE <<Staged("create_volume_dir", <<>>, target_dir)>>
        copied == <<<<dirs_.xargo, join(mount_prefix, <<"xargo">>)>>,
                    <<dirs_.cargo, join(mount_prefix, <<"cargo">>)>>,
                    <<dirs_.sysroot, join(mount_prefix, <<"rust">>)>>,
                    <<dirs_.host_root, mount_root>>>>
                  \o (IF inside.ok THEN <<>> ELSE <<<<dirs_.target, target_dir>>>>)
    IN  root \o target \o stage_volumes(copied, volumes)

\* slip: the toolchain is staged whatever the volume is
remote_staging_always(volume_, dirs_, mount_volumes, volumes, copy_cache) ==
    stage_toolchain(dirs_) \o stage_project(dirs_, mount_volumes, volumes, copy_cache)

\* step 4 of remote_run: if let VolumeId::Discard(_) = volume { .. }, then
\* the project, the target directory and the extra paths
remote_staging(volume_, dirs_, mount_volumes, volumes, copy_cache) ==
    (IF volume_.kind = "Discard" THEN stage_toolchain(dirs_) ELSE <<>>)
    \o stage_project(dirs_, mount_volumes, volumes, copy_cache)

\* extra paths to mount: none, a path dependency next to the project, a
\* directory of the cargo home, both
RemoteVolumes ==
    {<<>>, <<<<<<"path">>, <<"path">>>>>>,
     <<<<CargoHome \o <<"registry">>, CargoHome \o <<"registry">>>>>>,
     <<<<<<"path">>, <<"path">>>>, <<<<"project", "data">>, <<"project", "data">>>>>>}

InitStaging ==
    /\ Idle
    /\ eval \in {Call("remote_staging",
                      [volume |-> v,
                       dirs |-> [xargo |-> XargoHome, cargo |-> CargoHome,
                                 sysroot |-> Sysroot, target |-> t,
                                 host_root |-> h, mount_root |-> h],
                       mount_volumes |-> m, volumes |-> vs, copy_cache |-> c]) :
                    v \in {Keep(KeepId(Container)), Discard(Container)},
                    t \in {Workspace.target_directory, <<"out", "target">>},
                    h \in {Workspace.workspace_root, <<>>},
                    m \in BOOLEAN, vs \in RemoteVolumes, c \in BOOLEAN}
    /\ eval.arg.volumes # <<>> => eval.arg.mount_volumes
    /\ eval.arg.dirs.host_root = <<>> => eval.arg.mount_volumes

remote_staging_call ==
    /\ eval.fn = "remote_staging" /\ ~eval.done
    /\ Return(remote_staging(eval.arg.volume, eval.arg.dirs, eval.arg.mount_volumes,
                             eval.arg.volumes, eval.arg.copy_cache))

SpecStaging == InitStaging /\ [][remote_staging_call]_vars

\* the staging operations that copy a host directory into the container
Copies ==
    {eval.out[i] : i \in {j \in 1..Len(eval.out) :
                             eval.out[j].op \notin {"ln -s", "create_volume_dir"}}}
ToolchainCopies == {"copy_volume_xargo", "copy_volume_cargo", "copy_volume_rust"}

\* C36: remote_run stages the xargo home, the cargo home and the sysroot
\* exactly when the volume is Discard; with a Keep volume none of the three
\* is copied and the only directories copied into the container are the
\* project root, extra mount paths and, when it lies outside the project
\* and the cache is copied, the target directory.
C36_ToolchainStagedIffDiscard ==
    (eval.fn = "remote_staging" /\ eval.done)
      => LET d == eval.arg.dirs
             extra == {eval.arg.volumes[i][1] : i \in 1..Len(eval.arg.volumes)}
         IN  /\ eval.arg.volume.kind = "Discard"
                  => /\ SubSeq(eval.out, 1, 3) =
                          <<Staged("copy_volume_xargo", d.xargo, <<"cross", "xargo">>),
                            Staged("copy_volume_cargo", d.cargo, <<"cross", "cargo">>),
                            Staged("copy_volume_rust", d.sysroot, <<"cross", "rust">>)>>
                     /\ \A i \in 4..Len(eval.out) : eval.out[i].op \notin ToolchainCopies
             /\ eval.arg.volume.kind = "Keep"
                  => /\ \A c \in Copies : c.op = "copy"
                     /\ {c.src : c \in Copies} \subseteq {d.host_root, d.target} \cup extra
                     /\ d.host_root \in {c.src : c \in Copies}
                     /\ {d.xargo, d.cargo, d.sysroot} \cap {c.src : c \in Copies} = {}
             /\ (\E c \in Copies : c.src = d.target)
                  <=> (~IsInside(d.target, d.host_root) /\ eval.arg.copy_cache)

\* a Keep volume, the target directory outside the project with the cache
\* copied, and an extra path: three copies, none of the toolchain
C36_Witness ==
    /\ eval.fn = "remote_staging" /\ eval.done
    /\ eval.arg.volume.kind = "Keep"
    /\ {c.src : c \in Copies} = {<<"project">>, <<"out", "target">>, <<"path">>}

\* C37: when the copy-back command cannot be run, remote_run returns the
\* error of the copy-back and not the result of the build exec, be that an
\* exit status or an error; when the copy-back ran, whatever its exit
\* status, remote_run returns the result of the build exec unchanged.
C37_CopyBackErrorReplacesStatus ==
    \A i \in 1..Len(trace) :
        (Returned /\ trace[i].cmd = "exec build" /\ Issued(i + 1, "cp", "copy_back"))
            => /\ ~Ran(i + 1) => result = trace[i + 1].res /\ result # trace[i].res
               /\ Ran(i + 1) => result = trace[i].res

\* the build could not be run, and neither could the copy-back: the error
\* returned is that of the copy-back
C37_Witness ==
    /\ Returned
    /\ \E i \in 1..Len(trace) :
         /\ trace[i].cmd = "exec build" /\ ~Ran(i)
         /\ Issued(i + 1, "cp", "copy_back") /\ ~Ran(i + 1)
         /\ result = trace[i + 1].res
         /\ result # trace[i].res

\* --------------------------------------------- local_run: the environment
\* local_run on the host from the workspace root, for every configuration
\* of env.passthrough, env.volumes and the runner.

\* entries of env.passthrough
MaxEntries == 2

Passthrough == {<<"FOO">>, <<"FOO", Equals, "x">>, <<"CROSS_RUNNER">>,
                <<"CROSS_RUNNER", Equals, "x">>, <<"FOO", Equals, "CROSS_RUNNER">>}
VolumeEntries == {<<"VOL">>, <<"VOL", Equals, Slash, "target">>, <<"CROSS_RUNNER">>,
                  <<"CROSS_RUNNER", Equals, Slash, "target">>}
Runners == {None, Some("qemu-user")}

InitEnvVars ==
    /\ Idle
    /\ eval \in
         {Call("local_run",
               [target |-> [triple |-> "aarch64-unknown-linux-gnu",
                            needs_docker_seccomp |-> FALSE],
                argv |-> "build",
                metadata |-> [workspace_root |-> Workspace.workspace_root,
                              target_directory |-> Workspace.target_directory,
                              path_dependencies |-> <<>>],
                config |-> [image |-> [x \in TargetTriples |-> Value(None)],
                            env_passthrough |-> pass, env_volumes |-> vols,
                            runner |-> runner],
                uses_xargo |-> FALSE, sysroot |-> Sysroot,
                docker_in_docker |-> FALSE, cwd |-> Workspace.workspace_root,
                environ |-> [engine |-> Value([kind |-> "Docker",
                                               path |-> <<"usr", "bin", "docker">>]),
                             inspect |-> Report("not in a container"),
                             NIX_STORE |-> None,
                             variables |-> [v \in {"VOL", "CROSS_RUNNER"} |-> dir],
                             tty |-> [Stdin |-> FALSE, Stdout |-> FALSE, Stderr |-> FALSE],
                             build |-> Release]]) :
            pass \in UNION {[1..k -> Passthrough] : k \in 0..MaxEntries},
            vols \in UNION {[1..k -> VolumeEntries] : k \in 0..1},
            runner \in Runners, dir \in {None, Some(<<"data">>)}}

SpecEnvVars == InitEnvVars /\ [][local_run_call]_vars

\* an entry whose key is CROSS_RUNNER: the name alone, or the name and "="
Reserved(entry) ==
    entry = <<"CROSS_RUNNER">>
    \/ (Len(entry) >= 2 /\ SubSeq(entry, 1, 2) = <<"CROSS_RUNNER", Equals>>)

Configured ==
    {eval.arg.config.env_passthrough[i] : i \in 1..Len(eval.arg.config.env_passthrough)}
    \cup {eval.arg.config.env_volumes[i] : i \in 1..Len(eval.arg.config.env_volumes)}

\* the `-e` arguments that set or forward CROSS_RUNNER
RunnerAssignments ==
    {"CROSS_RUNNER"}
    \cup {"CROSS_RUNNER=" \o v : v \in {"", "x", "qemu-user", "/target", "/data"}}

\* C39: with an entry of env.passthrough or env.volumes whose key is
\* CROSS_RUNNER, with or without a value, local_run returns an error and
\* no command to run; otherwise the command has exactly one `-e` argument
\* for CROSS_RUNNER, CROSS_RUNNER=<runner> with the configured runner or
\* nothing after the "=".
C39_RunnerReserved ==
    (eval.fn = "local_run" /\ eval.done)
      => IF \E entry \in Configured : Reserved(entry)
         THEN ~eval.out.ok
         ELSE /\ eval.out.ok
              /\ LET a == eval.out.val.docker.args IN
                 /\ Cardinality({j \in 1..(Len(a) - 1) :
                                    a[j] = "-e" /\ a[j + 1] \in RunnerAssignments}) = 1
                 /\ ValuesOf("-e") \cap RunnerAssignments =
                       {"CROSS_RUNNER=" \o unwrap_or(eval.arg.config.runner, "")}

\* FOO=CROSS_RUNNER is passed through and a runner is configured
C39_Witness ==
    /\ Built
    /\ eval.arg.config.env_passthrough = <<<<"FOO", Equals, "CROSS_RUNNER">>>>
    /\ eval.arg.config.runner = Some("qemu-user")
    /\ {"FOO=CROSS_RUNNER", "CROSS_RUNNER=qemu-user"} \subseteq ValuesOf("-e")

====
